---- MODULE Spec2Model ----
(***************************************************************************)
(* Synchronization and schedule-generation engine of the CampusMind        *)
(* backend (backend/app): the Canvas course sync, the manual assignment    *)
(* status update, the Canvas -> Google Calendar push with its token       *)
(* refresh, the pull of the Canvas calendar, the AI schedule generator and *)
(* the expansion of a weekly class, as state machines over the MongoDB     *)
(* collections they share.                                                 *)
(*                                                                         *)
(* Every `await` of a handler is a point where another request may run, so *)
(* a handler is a sequence of steps, one per awaited database or provider  *)
(* call.  Wall-clock stamps (synced_at, created_at, updated_at) and the    *)
(* descriptive fields copied verbatim from the provider (title, due date,  *)
(* points) are not part of the state of the course sync.                   *)
(***************************************************************************)
EXTENDS Integers, Sequences, FiniteSets, Bags, TLC

VARIABLES
    canvas_token,      \* db.users: user -> "canvas_token" in user_doc
    tracked_course_ids,\* db.users: user -> tracked_course_ids
    canvas,            \* Canvas: the course listing, the assignments of each
                       \* course, the submission workflow_state of each
    canvas_courses,    \* db.canvas_courses, a bag of documents
    assignments,       \* db.assignments, a bag of documents
    sync,              \* the sync_canvas_data request in flight, if any
    resp,              \* the response of the last finished request
    hist,              \* history of the last sync_canvas_data request
    calendar_events,   \* db.calendar_events, a bag of documents
    gen,               \* the generate_schedule request in flight, if any
    google_tokens,     \* db.google_tokens, a bag of documents
    tracked_courses,   \* db.tracked_courses, a bag of documents
    sync_state,        \* db.sync_state, a bag of documents
    canvas_assignments,\* db.canvas_assignments, a bag of documents
    google_calendar,   \* Google Calendar: the events created there
    push,              \* the sync_canvas_to_calendar request in flight, if any
    tool,              \* the check_calendar_availability tool call in flight, if any
    pull,              \* the sync_canvas_calendar request in flight, if any
    expansion          \* the call of generate_class_events: request and result,
                       \* and the create_class_events request that makes it

vars == <<canvas_token, tracked_course_ids, canvas, canvas_courses,
          assignments, sync, resp, hist, calendar_events, gen,
          google_tokens, tracked_courses, sync_state, canvas_assignments,
          google_calendar, push, tool, pull, expansion>>

\* the collections of SyncService, its provider and its request
pushVars == <<google_tokens, tracked_courses, sync_state, canvas_assignments,
              google_calendar, push, tool, pull, expansion>>

\* what the requests of the course sync leave alone
notCourse == <<calendar_events, gen, pushVars>>

\* what the requests of the schedule leave alone
notSchedule == <<canvas_token, tracked_course_ids, canvas, canvas_courses,
                 assignments, sync, hist, pushVars>>

\* what the requests of SyncService leave alone
notPush == <<tool, pull, expansion, canvas_token, tracked_course_ids, canvas_courses, assignments,
             sync, hist, calendar_events, gen>>

-----------------------------------------------------------------------------
(* Domains *)

\* the users of db.users are those of DOMAIN canvas_token
Courses == {"c1", "c2", "c3"}

Assignments == {"a1", "a2"}

\* "missing" stands for an assignment without a "submission" key
WorkflowStates == {"missing", "unsubmitted", "submitted", "pending_review",
                   "graded", "complete", "deleted"}

\* the two states a student usually moves between
CommonStates == {"unsubmitted", "graded"}

Statuses == {"not_started", "in_progress", "completed"}

\* the course selections a client sends to PUT /canvas/courses/track
TrackRequests == {{}, {"c1"}, {"c1", "c2", "c3"}}

DeepTrackRequests == {{}, {"c1"}}

\* one student with three active courses, one of them without assignments
WideCanvas ==
    [courses |-> <<"c1", "c2", "c3">>,
     assignments |-> [c \in Courses |->
                        CASE c = "c1" -> <<"a1">>
                          [] c = "c2" -> <<"a2">>
                          [] OTHER    -> <<>>],
     wf |-> [a \in Assignments |-> "unsubmitted"],
     due |-> [a \in Assignments |-> "future"]]

\* one course with one assignment
DeepCanvas ==
    [courses |-> <<"c1">>,
     assignments |-> [c \in {"c1"} |-> <<"a1">>],
     wf |-> [a \in {"a1"} |-> "unsubmitted"],
     due |-> [a \in {"a1"} |-> "future"]]

-----------------------------------------------------------------------------
(* sync_canvas_data: pure parts *)

\* workflow_state = submission.get("workflow_state", "unsubmitted")
workflow_state(w) == IF w = "missing" THEN "unsubmitted" ELSE w

canvas_status_drop(w) ==
    IF workflow_state(w) \in {"submitted", "graded", "complete"}
    THEN "completed" ELSE "not_started"

\* the mapping of the Canvas workflow_state to the local status
canvas_status(w) ==
    IF workflow_state(w) \in {"submitted", "pending_review", "graded", "complete"}
    THEN "completed" ELSE "not_started"

final_status_overwrite(existing, w) == canvas_status(w)

\* existing is the status of the document found, or "none"
final_status(existing, w) ==
    IF existing # "none" /\ existing = "in_progress"
    THEN "in_progress" ELSE canvas_status(w)

no_tracked_never(tracked) == FALSE

\* `if not tracked_course_ids`
no_tracked(tracked) == tracked = {}

\* the documents of db.assignments a {"canvas_id", "user_id"} filter matches
MatchAssignments(coll, cid, uid) ==
    {d \in BagToSet(coll) : d.canvas_id = cid /\ d.user_id = uid}

\* the documents of db.canvas_courses a {"canvas_id", "user_id"} filter matches
MatchCourses(coll, cid, uid) ==
    {d \in BagToSet(coll) : d.canvas_id = cid /\ d.user_id = uid}

insert_always(coll, matched, doc) == {coll (+) SetToBag({doc})}

\* update_one(filter, {"$set": doc}, upsert=True) where doc sets every field:
\* one matched document is rewritten, or doc is inserted when none matches
update_one_upsert(coll, matched, doc) ==
    IF matched = {}
    THEN {coll (+) SetToBag({doc})}
    ELSE {(coll (-) SetToBag({d})) (+) SetToBag({doc}) : d \in matched}

\* update_one(filter, {"$set": {"status": s}}): no upsert
update_one_status(coll, matched, s) ==
    {(coll (-) SetToBag({d})) (+) SetToBag({[d EXCEPT !.status = s]}) : d \in matched}

AssignmentDoc(cid, uid, c, s, w) ==
    [canvas_id |-> cid, user_id |-> uid, course_id |-> c, status |-> s,
     canvas_workflow_state |-> w]

CourseDoc(cid, uid) == [canvas_id |-> cid, user_id |-> uid]

-----------------------------------------------------------------------------
(* Requests and responses *)

NoSync == [pc |-> "idle", user |-> "none", tracked |-> {}, courses |-> <<>>,
           course |-> "none", asgs |-> <<>>, existing |-> "none",
           courses_synced |-> 0, assignments_synced |-> 0,
           second |-> FALSE]

NoResp == [op |-> "none", user |-> "none", code |-> 0, success |-> FALSE]

\* CanvasSyncResponse(success=True, ...)
CanvasSyncResponse(u, cs, as) ==
    [op |-> "sync_canvas_data", user |-> u, code |-> 200, success |-> TRUE,
     courses_synced |-> cs, assignments_synced |-> as]

\* raise HTTPException(status_code=code)
HTTPException(op, u, code) ==
    [op |-> op, user |-> u, code |-> code, success |-> FALSE]

\* `tokens` of get_valid_access_token before get_user_tokens has answered
NoTokens == [user_id |-> "none", access_token |-> "none",
             refresh_token |-> "none", ttl |-> 0]

NoPush == [pc |-> "idle", user |-> "none", force |-> FALSE,
           tokens |-> NoTokens, new_tokens |-> "none",
           access_token |-> "none", courses |-> <<>>, assignments |-> <<>>,
           existing |-> 0, created_event |-> 0, synced_count |-> 0,
           failed_count |-> 0, created_events |-> 0, errors |-> <<>>]

NoExpansion ==
    [pc |-> "none", user |-> "none", called |-> FALSE,
     class_event |-> [days_of_week |-> <<>>, start_time |-> "none",
                      end_time |-> "none", term_start_date |-> 0,
                      term_end_date |-> 0],
     events |-> <<>>]

NoPull == [pc |-> "idle", user |-> "none", events |-> <<>>, events_synced |-> 0]

NoTool == [pc |-> "idle", user |-> "none", tokens |-> NoTokens,
           new_tokens |-> "none", access_token |-> "none"]

NoGen == [pc |-> "idle", user |-> "none", start |-> 0, end |-> 0,
          regenerate |-> FALSE, pillars |-> {}, before |-> EmptyBag,
          deleted |-> 0, schedule |-> <<>>, inserted |-> 0,
          study_blocks_created |-> 0, break_blocks_created |-> 0]

\* History of the last sync_canvas_data request.  lastClean: its user, when
\* it fetched everything and nothing else has happened since; changed:
\* another request or the provider acted since it started; tracked: the
\* courses it was to sync; failed: the courses whose assignments it failed to
\* fetch; userIP: the assignments its user set to in_progress while it ran
\* and has not set again since
NoHist == [lastClean |-> "none", changed |-> FALSE, tracked |-> {},
           failed |-> {}, userIP |-> {}]

\* the history when a request starts
Started(tracked) == [NoHist EXCEPT !.tracked = tracked]

Touched == [hist EXCEPT !.lastClean = "none", !.changed = TRUE]

-----------------------------------------------------------------------------
(* The users collection and the provider *)

\* a fresh database: no token, nothing tracked, nothing synced
InitDatabase(U, c) ==
    /\ canvas_token = [u \in U |-> FALSE]
    /\ tracked_course_ids = [u \in U |-> {}]
    /\ canvas = c
    /\ canvas_courses = EmptyBag
    /\ assignments = EmptyBag
    /\ sync = NoSync
    /\ resp = NoResp
    /\ hist = NoHist
    /\ calendar_events = EmptyBag
    /\ gen = NoGen
    /\ google_tokens = EmptyBag
    /\ tracked_courses = EmptyBag
    /\ sync_state = EmptyBag
    /\ canvas_assignments = EmptyBag
    /\ google_calendar = {}
    /\ push = NoPush
    /\ tool = NoTool
    /\ pull = NoPull

\* and no call of generate_class_events yet
InitWith(U, c) ==
    /\ InitDatabase(U, c)
    /\ expansion = NoExpansion

\* POST /canvas/token
save_canvas_token(u) ==
    /\ canvas_token' = [canvas_token EXCEPT ![u] = TRUE]
    /\ hist' = Touched
    /\ UNCHANGED <<tracked_course_ids, canvas, canvas_courses, assignments,
                   sync, resp>>
    /\ UNCHANGED notCourse

\* DELETE /canvas/token
delete_canvas_token(u) ==
    /\ canvas_token' = [canvas_token EXCEPT ![u] = FALSE]
    /\ hist' = Touched
    /\ UNCHANGED <<tracked_course_ids, canvas, canvas_courses, assignments,
                   sync, resp>>
    /\ UNCHANGED notCourse

\* PUT /canvas/courses/track
track_courses(u, ids) ==
    /\ tracked_course_ids' = [tracked_course_ids EXCEPT ![u] = ids]
    /\ hist' = Touched
    /\ UNCHANGED <<canvas_token, canvas, canvas_courses, assignments,
                   sync, resp>>
    /\ UNCHANGED notCourse

\* the student submits, the teacher grades, ...: Canvas changes on its own
provider_change(a, w) ==
    /\ a \in DOMAIN canvas.wf
    /\ canvas.wf[a] # w
    /\ canvas' = [canvas EXCEPT !.wf[a] = w]
    /\ hist' = Touched
    /\ UNCHANGED <<canvas_token, tracked_course_ids, canvas_courses,
                   assignments, sync, resp>>
    /\ UNCHANGED notCourse

\* the user the last answer went to, when it was an answer of the course sync
RespUser == IF "user" \in DOMAIN resp THEN resp.user ELSE "none"

\* PUT /assignments/{assignment_id}/status; 404 when no document matches
update_assignment_status(u, a, s) ==
    LET matched == MatchAssignments(assignments, a, u) IN
    /\ matched # {}
    /\ assignments' \in update_one_status(assignments, matched, s)
    /\ hist' = [Touched EXCEPT !.userIP =
                   IF sync.pc # "idle" /\ sync.user = u /\ s = "in_progress"
                   THEN @ \cup {a}
                   ELSE IF u \in {sync.user, RespUser} THEN @ \ {a} ELSE @]
    /\ UNCHANGED <<canvas_token, tracked_course_ids, canvas, canvas_courses,
                   sync, resp>>
    /\ UNCHANGED notCourse

-----------------------------------------------------------------------------
(* sync_canvas_data, POST /canvas/sync *)

RECURSIVE SkipUntracked(_, _)
\* `if course_id not in tracked_course_ids: continue`
SkipUntracked(cs, tracked) ==
    IF cs = <<>> THEN <<>>
    ELSE IF Head(cs) \in tracked THEN cs
    ELSE SkipUntracked(Tail(cs), tracked)

\* the request returns: the response r; h is the history so far
Return(h, r) ==
    /\ sync' = NoSync
    /\ resp' = r
    /\ hist' = [h EXCEPT !.lastClean =
                   IF r.success /\ h.tracked # {} /\ h.failed = {} /\ ~h.changed
                   THEN r.user ELSE "none"]

\* the top of `for course in courses`: s.courses is what is left of the
\* listing; runs to the next await or to the return
NextCourse(h, s) ==
    LET left == SkipUntracked(s.courses, s.tracked) IN
    IF left = <<>>
    THEN Return(h, CanvasSyncResponse(s.user, s.courses_synced,
                                      s.assignments_synced))
    ELSE /\ sync' = [s EXCEPT !.pc = "upsert_course", !.course = Head(left),
                               !.courses = Tail(left)]
         /\ resp' = resp
         /\ hist' = h

\* get_user_canvas_config and the read of tracked_course_ids
sync_start(u) ==
    /\ sync.pc = "idle"
    /\ IF ~canvas_token[u]
       THEN Return(Started({}), HTTPException("sync_canvas_data", u, 400))
       ELSE IF no_tracked(tracked_course_ids[u])
       THEN Return(Started({}), CanvasSyncResponse(u, 0, 0))
       ELSE /\ sync' = [NoSync EXCEPT !.pc = "fetch_courses", !.user = u,
                            !.tracked = tracked_course_ids[u],
                            !.second = (hist.lastClean = u)]
            /\ resp' = NoResp
            /\ hist' = Started(tracked_course_ids[u])
    /\ UNCHANGED <<canvas_token, tracked_course_ids, canvas, canvas_courses,
                   assignments>>
    /\ UNCHANGED notCourse

\* GET /api/v1/courses: 200, another status, or the client raises
sync_fetch_courses(outcome) ==
    /\ sync.pc = "fetch_courses"
    /\ CASE outcome = "ok" ->
              NextCourse(hist, [sync EXCEPT !.courses = canvas.courses])
         [] outcome = "status" ->
              Return(hist, HTTPException("sync_canvas_data", sync.user, 502))
         [] OTHER ->
              Return(hist, HTTPException("sync_canvas_data", sync.user, 500))
    /\ UNCHANGED <<canvas_token, tracked_course_ids, canvas, canvas_courses,
                   assignments>>
    /\ UNCHANGED notCourse

\* db.canvas_courses.update_one(..., upsert=True); courses_synced += 1
sync_upsert_course ==
    /\ sync.pc = "upsert_course"
    /\ canvas_courses' \in
         update_one_upsert(canvas_courses,
                           MatchCourses(canvas_courses, sync.course, sync.user),
                           CourseDoc(sync.course, sync.user))
    /\ sync' = [sync EXCEPT !.pc = "fetch_assignments",
                            !.courses_synced = @ + 1]
    /\ UNCHANGED <<canvas_token, tracked_course_ids, canvas, assignments,
                   resp, hist>>
    /\ UNCHANGED notCourse

\* what the provider answers for the assignments of course c
AssignmentsResponse(c) ==
    [i \in 1..Len(canvas.assignments[c]) |->
        [id |-> canvas.assignments[c][i],
         submission |-> canvas.wf[canvas.assignments[c][i]]]]

\* GET /api/v1/courses/{id}/assignments
sync_fetch_assignments(outcome) ==
    /\ sync.pc = "fetch_assignments"
    /\ CASE outcome = "ok" ->
              IF AssignmentsResponse(sync.course) = <<>>
              THEN NextCourse(hist, sync)
              ELSE /\ sync' = [sync EXCEPT !.pc = "find",
                                    !.asgs = AssignmentsResponse(sync.course)]
                   /\ UNCHANGED <<resp, hist>>
         [] outcome = "status" ->
              NextCourse([hist EXCEPT !.failed = @ \cup {sync.course}], sync)
         [] OTHER ->
              Return([hist EXCEPT !.failed = @ \cup {sync.course}],
                     HTTPException("sync_canvas_data", sync.user, 500))
    /\ UNCHANGED <<canvas_token, tracked_course_ids, canvas, canvas_courses,
                   assignments>>
    /\ UNCHANGED notCourse

\* existing = await db.assignments.find_one({canvas_id, user_id})
sync_find ==
    /\ sync.pc = "find"
    /\ LET matched == MatchAssignments(assignments, Head(sync.asgs).id, sync.user) IN
       \E e \in (IF matched = {} THEN {"none"} ELSE {d.status : d \in matched}) :
          sync' = [sync EXCEPT !.pc = "upsert", !.existing = e]
    /\ UNCHANGED <<canvas_token, tracked_course_ids, canvas, canvas_courses,
                   assignments, resp, hist>>
    /\ UNCHANGED notCourse

\* db.assignments.update_one(..., upsert=True); assignments_synced += 1
sync_upsert ==
    /\ sync.pc = "upsert"
    /\ LET a == Head(sync.asgs)
           doc == AssignmentDoc(a.id, sync.user, sync.course,
                                final_status(sync.existing, a.submission),
                                workflow_state(a.submission))
           s == [sync EXCEPT !.asgs = Tail(@), !.existing = "none",
                             !.assignments_synced = @ + 1]
       IN /\ assignments' \in
               update_one_upsert(assignments,
                                 MatchAssignments(assignments, a.id, sync.user), doc)
          /\ IF s.asgs = <<>>
             THEN NextCourse(hist, s)
             ELSE /\ sync' = [s EXCEPT !.pc = "find"]
                  /\ UNCHANGED <<resp, hist>>
    /\ UNCHANGED <<canvas_token, tracked_course_ids, canvas, canvas_courses>>
    /\ UNCHANGED notCourse

-----------------------------------------------------------------------------
(* Specifications *)

Outcomes == {"ok", "status", "raise"}

Users == DOMAIN canvas_token

\* the requests of the clients to their Canvas settings
Settings(free, T) ==
    \/ free /\ \E u \in Users : save_canvas_token(u)
    \/ free /\ \E u \in Users : delete_canvas_token(u)
    \/ free /\ \E u \in Users, ids \in T : track_courses(u, ids)

\* the changes of the provider and of the status of the assignments
Work(free, W) ==
    \/ free /\ \E a \in Assignments, w \in W : provider_change(a, w)
    \/ free /\ \E u \in Users, a \in Assignments, s \in Statuses :
                  update_assignment_status(u, a, s)

Env(free, W, T) == Settings(free, T) \/ Work(free, W)

\* the steps of the sync_canvas_data request, which starts when free
PassWhen(free) ==
    \/ free /\ \E u \in Users : sync_start(u)
    \/ \E o \in Outcomes : sync_fetch_courses(o)
    \/ sync_upsert_course
    \/ \E o \in Outcomes : sync_fetch_assignments(o)
    \/ sync_find
    \/ sync_upsert

Pass == PassWhen(TRUE)

Idle == sync.pc = "idle"

\* requests interleave at every await
Next == Env(TRUE, CommonStates, TrackRequests) \/ Pass

\* one request at a time
NextSerial == Env(Idle, CommonStates, TrackRequests) \/ Pass

NextDeepSerial == Env(Idle, WorkflowStates, DeepTrackRequests) \/ Pass

Spec == InitWith({"u1"}, WideCanvas) /\ [][Next]_vars

SpecSerial == InitWith({"u1"}, WideCanvas) /\ [][NextSerial]_vars

SpecDeepSerial == InitWith({"u1"}, DeepCanvas) /\ [][NextDeepSerial]_vars

-----------------------------------------------------------------------------
(* Properties of the course sync *)

\* the number of documents of db.assignments with the key (cid, uid)
CountAssignments(coll, cid, uid) ==
    BagCardinality([d \in MatchAssignments(coll, cid, uid) |-> coll[d]])

CompletedStates == {"submitted", "pending_review", "graded", "complete"}

\* the step is a step of the sync_canvas_data request in flight
PassStep == sync.pc # "idle" /\ sync' # sync

\* the step is the first step of a sync_canvas_data request
StartStep == sync.pc = "idle" /\ ~hist'.changed /\ <<sync, resp, hist>>' # <<sync, resp, hist>>

\* the user of the request that StartStep starts
StartedBy == IF sync'.pc = "idle" THEN resp'.user ELSE sync'.user

\* C1: status preservation. When requests run one at a time, no step of a
\* sync pass changes the status of an assignment of its user that is
\* in_progress, whatever workflow state the provider reports, pass after pass.
C1_StatusPreserved ==
    [][PassStep =>
         \A d \in BagToSet(assignments) :
            (d.user_id = sync.user /\ d.status = "in_progress") =>
               /\ MatchAssignments(assignments', d.canvas_id, d.user_id) # {}
               /\ \A e \in MatchAssignments(assignments', d.canvas_id, d.user_id) :
                     e.status = "in_progress"]_vars

\* a pass has just rewritten an in_progress assignment the provider reports
\* as graded
C1_Witness ==
    /\ hist.lastClean = "u1"
    /\ \E d \in BagToSet(assignments) :
          /\ d.user_id = "u1" /\ d.status = "in_progress"
          /\ d.canvas_workflow_state = "graded"

\* C2: no lost update under interleaving. Once a pass has returned, every
\* assignment its user set to in_progress while the pass was running (and has
\* not set again since) is in_progress.
C2_NoLostUpdate ==
    (Idle /\ resp.op = "sync_canvas_data") =>
       \A a \in hist.userIP :
          \A d \in MatchAssignments(assignments, a, resp.user) :
             d.status = "in_progress"

\* C3: status mapping. When requests run one at a time, the upsert of an
\* assignment that is new or not in_progress writes completed exactly for the
\* workflow states submitted, pending_review, graded and complete, and
\* not_started otherwise; and no step of a pass makes an assignment
\* in_progress that was not.
C3_StatusMapping ==
    [][PassStep =>
         /\ (sync.pc = "upsert" /\ sync.existing # "in_progress") =>
               \A d \in MatchAssignments(assignments', Head(sync.asgs).id, sync.user) :
                  d.status = IF Head(sync.asgs).submission \in CompletedStates
                             THEN "completed" ELSE "not_started"
         /\ \A e \in BagToSet(assignments') :
               e.status = "in_progress" =>
                  \E d \in MatchAssignments(assignments, e.canvas_id, e.user_id) :
                     d.status = "in_progress"]_vars

\* a pass has just written completed for a submission pending review
C3_Witness ==
    /\ hist.lastClean = "u1"
    /\ \E d \in BagToSet(assignments) :
          /\ d.user_id = "u1" /\ d.status = "completed"
          /\ d.canvas_workflow_state = "pending_review"

RespErrors(r) == IF "errors" \in DOMAIN r THEN r.errors ELSE <<>>

\* C5: partial failure reporting. A pass over three tracked courses in which
\* the fetch of the assignments of exactly one course failed returns success
\* with courses_synced = 2, a positive assignments_synced and a non-empty
\* error list.
C5_PartialFailure ==
    (Idle /\ resp.op = "sync_canvas_data"
          /\ Cardinality(hist.tracked) = 3 /\ Cardinality(hist.failed) = 1) =>
       /\ resp.code = 200 /\ resp.success
       /\ resp.courses_synced = 2
       /\ resp.assignments_synced > 0
       /\ RespErrors(resp) # <<>>

\* C6 as claimed: a sync request of a user who tracks no course returns
\* success with zero counts, fetches nothing and changes no document.
C6_EmptyTrackedNoop ==
    [][(StartStep /\ tracked_course_ids[StartedBy] = {}) =>
         /\ sync'.pc = "idle"
         /\ resp' = CanvasSyncResponse(StartedBy, 0, 0)
         /\ UNCHANGED <<canvas_courses, assignments, canvas_token,
                         tracked_course_ids>>]_vars

\* C6 as amended: a sync request of a user who has a Canvas token and tracks
\* no course returns success with zero counts, fetches nothing and changes no
\* document.
C6_EmptyTrackedNoopWithToken ==
    [][(StartStep /\ canvas_token[StartedBy] /\ tracked_course_ids[StartedBy] = {}) =>
         /\ sync'.pc = "idle"
         /\ resp' = CanvasSyncResponse(StartedBy, 0, 0)
         /\ UNCHANGED <<canvas_courses, assignments, canvas_token,
                         tracked_course_ids>>]_vars

\* a user with a token, synced documents and nothing tracked got the no-op
\* answer
C6_Witness ==
    /\ Idle /\ ~hist.changed
    /\ resp = CanvasSyncResponse("u1", 0, 0)
    /\ canvas_token["u1"] /\ tracked_course_ids["u1"] = {}
    /\ BagCardinality(assignments) = 2

-----------------------------------------------------------------------------
(* The calendar and the AI schedule: routers/calendar.py, routers/schedule.py *)
(* A document of db.calendar_events stands for its own _id: a request that   *)
(* names an event by id names a document of the bag.  Of an event only the   *)
(* start time is kept; a proposal whose start or end string does not parse   *)
(* has start_time = BadTime.                                                 *)

\* start times are 0..MaxTime
MaxTime == 1

\* at most MaxEvents documents in db.calendar_events
MaxEvents == 2

\* at most MaxBlocks blocks in a proposal of the schedule maker
MaxBlocks == 2

Times == 0..MaxTime

BadTime == 0 - 1

\* the event types a client sends; any of PillarTypes behaves as "academic"
EventTypes == {"academic", "other"}

PillarTypes == {"academic", "personal", "social", "wellness"}

\* the type of the blocks the schedule maker proposes; a "BREAK" differs from
\* a "STUDY_BLOCK" in descriptive fields and in the counter it increments
BlockTypes == {"STUDY_BLOCK"}

Ranges == {r \in Times \X Times : r[1] <= r[2]}

Blocks == [type : BlockTypes, start_time : Times \cup {BadTime}]

Proposals == UNION {[1..n -> Blocks] : n \in 0..MaxBlocks}

\* event_doc of create_event: no source, no is_locked
ManualEvent(u, type, t) ==
    [user_id |-> u, event_type |-> type, source |-> "none",
     is_locked |-> FALSE, start_time |-> t]

AIEvent_as_proposed(u, block) ==
    [user_id |-> u, event_type |-> "other", source |-> "CAMPUSMIND_AI",
     is_locked |-> block.is_locked, start_time |-> block.start_time]

\* event_doc of generate_schedule
AIEvent(u, block) ==
    [user_id |-> u, event_type |-> "other", source |-> "CAMPUSMIND_AI",
     is_locked |-> FALSE, start_time |-> block.start_time]

InRange(t, start, end) == start <= t /\ t <= end

\* the query of the pillars
pillar_filter(e, uid, start, end) ==
    /\ e.user_id = uid
    /\ InRange(e.start_time, start, end)
    /\ (e.event_type \in PillarTypes \/ e.is_locked)

wipe_filter_any_source(e, uid, start, end) ==
    /\ e.user_id = uid
    /\ e.event_type = "other"
    /\ InRange(e.start_time, start, end)

\* the filter of the delete_many of generate_schedule
wipe_filter(e, uid, start, end) ==
    /\ e.user_id = uid
    /\ e.event_type = "other"
    /\ e.source = "CAMPUSMIND_AI"
    /\ InRange(e.start_time, start, end)

\* the filter of the delete_many of clear_ai_blocks
clear_filter(e, uid, start, end) ==
    /\ e.user_id = uid
    /\ e.source = "CAMPUSMIND_AI"
    /\ InRange(e.start_time, start, end)

\* the bag coll restricted to the documents of the set keep
Restrict(coll, keep) ==
    IF keep = {} THEN EmptyBag ELSE [d \in keep |-> coll[d]]

\* delete_many: every copy of every document of doomed goes
delete_many(coll, doomed) == Restrict(coll, BagToSet(coll) \ doomed)

\* one copy of document d is replaced by document e
ReplaceOne(coll, d, e) == (coll (-) SetToBag({d})) (+) SetToBag({e})

\* the unlocked generated blocks of user uid that start in [start, end]
UnlockedBlocks(coll, uid, start, end) ==
    Restrict(coll, {e \in BagToSet(coll) :
                      /\ e.user_id = uid /\ e.source = "CAMPUSMIND_AI"
                      /\ ~e.is_locked /\ InRange(e.start_time, start, end)})

\* the documents the request in flight is still to insert
Pending == Len(gen.schedule) - gen.inserted

\* the answer of a calendar request: the status code
Answer(op, code) == [op |-> op, code |-> code]

\* ScheduleGenerationResponse(success=True, ...)
ScheduleGenerationResponse(sb, bb) ==
    [op |-> "generate_schedule", code |-> 200, success |-> TRUE,
     study_blocks_created |-> sb, break_blocks_created |-> bb]

\* POST /calendar/events
create_event(u, type, t) ==
    /\ BagCardinality(calendar_events) + Pending < MaxEvents
    /\ calendar_events' = calendar_events (+) SetToBag({ManualEvent(u, type, t)})
    /\ resp' = Answer("create_event", 200)
    /\ UNCHANGED gen
    /\ UNCHANGED notSchedule

\* DELETE /calendar/events/{event_id}
delete_event(u, e) ==
    /\ IF e.user_id = u
       THEN /\ calendar_events' = calendar_events (-) SetToBag({e})
            /\ resp' = Answer("delete_event", 204)
       ELSE /\ resp' = Answer("delete_event", 404)
            /\ UNCHANGED calendar_events
    /\ UNCHANGED gen
    /\ UNCHANGED notSchedule

\* event_update: the fields a CalendarEventUpdate sets, None values skipped
EventUpdates ==
    {[event_type |-> type] : type \in EventTypes}
       \cup {[start_time |-> t] : t \in Times}
       \cup {[event_type |-> type, start_time |-> t] :
                type \in EventTypes, t \in Times}
       \cup {[title |-> "new title"], [f \in {} |-> "none"]}

\* the fields of the model's documents among those of update_data
Stored(update_data) ==
    [f \in DOMAIN update_data \cap {"event_type", "start_time"} |-> update_data[f]]

\* find_one({"_id": ObjectId(event_id), "user_id": db_user_id}) finds e
find_one_of_user(e, uid) == e.user_id = uid

\* {"$set": update_data} on document e
update_one_set_fields(e, update_data) ==
    [f \in DOMAIN e |-> IF f \in DOMAIN update_data THEN update_data[f] ELSE e[f]]

\* PUT /calendar/events/{event_id}; times_valid is the outcome of the
\* comparison of the new start_time with the end_time
update_event(u, e, update_data, times_valid) ==
    /\ IF ~find_one_of_user(e, u)
       THEN /\ resp' = Answer("update_event", 404)
            /\ UNCHANGED calendar_events
       ELSE IF ("start_time" \in DOMAIN update_data /\ ~times_valid)
                 \/ DOMAIN update_data = {}
       THEN /\ resp' = Answer("update_event", 400)
            /\ UNCHANGED calendar_events
       ELSE /\ calendar_events' =
                 ReplaceOne(calendar_events, e,
                            update_one_set_fields(e, Stored(update_data)))
            /\ resp' = Answer("update_event", 200)
    /\ UNCHANGED gen
    /\ UNCHANGED notSchedule

\* the block_id of the path: the _id of a stored event, a well-formed
\* ObjectId that no stored event has, or a string ObjectId() rejects
BlockIds == {"stored", "unknown", "malformed"}

\* the event meant by a block_id that is not the _id of a stored event
NoEvent == [user_id |-> "none", event_type |-> "other", source |-> "none",
            is_locked |-> FALSE, start_time |-> 0]

\* ObjectId(block_id) raises InvalidId
InvalidId(block_id) == block_id = "malformed"

\* {"$set": {"is_locked": lock, "updated_at": ...}}
lock_update(e, lock) == [e EXCEPT !.is_locked = lock]

lock_filter_by_id(e, uid) == TRUE

\* the filter {"_id": ObjectId(block_id), "user_id": db_user_id} matches e
lock_filter(e, uid) == e.user_id = uid

\* PUT /schedule/ai-blocks/{block_id}/lock; e is the stored event whose _id
\* block_id is, when there is one
toggle_block_lock(u, block_id, e, lock) ==
    /\ block_id \in BlockIds
    /\ (block_id = "stored") = (e # NoEvent)
    /\ IF InvalidId(block_id)
       THEN /\ resp' = Answer("toggle_block_lock", 500)
            /\ UNCHANGED calendar_events
       ELSE IF block_id = "stored" /\ lock_filter(e, u)
       THEN /\ calendar_events' =
                 ReplaceOne(calendar_events, e, lock_update(e, lock))
            /\ resp' = Answer("toggle_block_lock", 200)
       ELSE /\ resp' = Answer("toggle_block_lock", 404)
            /\ UNCHANGED calendar_events
    /\ UNCHANGED gen
    /\ UNCHANGED notSchedule

\* DELETE /schedule/ai-blocks/clear
clear_ai_blocks(u, start, end) ==
    LET doomed == {e \in BagToSet(calendar_events) : clear_filter(e, u, start, end)} IN
    /\ calendar_events' = delete_many(calendar_events, doomed)
    /\ resp' = [op |-> "clear_ai_blocks", code |-> 200,
                blocks_deleted |-> BagCardinality(calendar_events)
                                   - BagCardinality(calendar_events')]
    /\ UNCHANGED gen
    /\ UNCHANGED notSchedule

\* the request returns
GenReturn(r) ==
    /\ gen' = NoGen
    /\ resp' = r

\* the top of `for event in schedule_result.get("schedule", [])`, up to the
\* next insert_one or to the return; fromisoformat raises on a bad string
NextBlock(g) ==
    IF g.inserted = Len(g.schedule)
    THEN GenReturn(ScheduleGenerationResponse(g.study_blocks_created,
                                              g.break_blocks_created))
    ELSE IF g.schedule[g.inserted + 1].start_time = BadTime
    THEN GenReturn(Answer("generate_schedule", 500))
    ELSE /\ gen' = [g EXCEPT !.pc = "insert"]
         /\ resp' = resp

\* POST /schedule/generate: the user and the date range
gen_start(u, start, end, regenerate) ==
    /\ gen.pc = "idle"
    /\ gen' = [NoGen EXCEPT !.pc = "pillars", !.user = u, !.start = start,
                           !.end = end, !.regenerate = regenerate,
                           !.before = UnlockedBlocks(calendar_events, u, start, end)]
    /\ resp' = NoResp
    /\ UNCHANGED calendar_events
    /\ UNCHANGED notSchedule

wipes_always(regenerate) == TRUE

\* `if request.regenerate:` before the delete_many
wipes(regenerate) == regenerate

\* Step 2: the pillars are read
gen_pillars ==
    /\ gen.pc = "pillars"
    /\ gen' = [gen EXCEPT
                 !.pc = IF wipes(gen.regenerate) THEN "wipe" ELSE "propose",
                 !.pillars = {e \in BagToSet(calendar_events) :
                                pillar_filter(e, gen.user, gen.start, gen.end)}]
    /\ UNCHANGED <<calendar_events, resp>>
    /\ UNCHANGED notSchedule

\* Step 4: the wipe
gen_wipe ==
    LET doomed == {e \in BagToSet(calendar_events) :
                     wipe_filter(e, gen.user, gen.start, gen.end)} IN
    /\ gen.pc = "wipe"
    /\ calendar_events' = delete_many(calendar_events, doomed)
    /\ gen' = [gen EXCEPT !.pc = "propose",
                          !.deleted = BagCardinality(calendar_events)
                                      - BagCardinality(calendar_events')]
    /\ UNCHANGED resp
    /\ UNCHANGED notSchedule

\* Step 5: the schedule maker answers with a schedule, answers without
\* success, or raises
gen_propose(outcome, schedule) ==
    /\ gen.pc = "propose"
    /\ IF outcome = "ok"
       THEN /\ BagCardinality(calendar_events) + Len(schedule) <= MaxEvents
            /\ NextBlock([gen EXCEPT !.schedule = schedule])
       ELSE /\ schedule = <<>>
            /\ GenReturn(Answer("generate_schedule", 500))
    /\ UNCHANGED calendar_events
    /\ UNCHANGED notSchedule

\* Step 6: insert_one of the next block, or the database raises
gen_insert(outcome) ==
    LET block == gen.schedule[gen.inserted + 1] IN
    /\ gen.pc = "insert"
    /\ IF outcome = "ok"
       THEN /\ calendar_events' =
                 calendar_events (+) SetToBag({AIEvent(gen.user, block)})
            /\ NextBlock([gen EXCEPT
                   !.inserted = @ + 1,
                   !.study_blocks_created =
                       IF block.type = "STUDY_BLOCK" THEN @ + 1 ELSE @,
                   !.break_blocks_created =
                       IF block.type = "BREAK" THEN @ + 1 ELSE @])
       ELSE /\ GenReturn(Answer("generate_schedule", 500))
            /\ UNCHANGED calendar_events
    /\ UNCHANGED notSchedule

GenIdle == gen.pc = "idle"

\* the requests of the clients to the calendar
Calendar(free) ==
    \/ free /\ \E u \in Users, type \in EventTypes, t \in Times :
                  create_event(u, type, t)
    \/ free /\ \E u \in Users, e \in BagToSet(calendar_events) : delete_event(u, e)
    \/ free /\ \E u \in Users, e \in BagToSet(calendar_events), lock \in BOOLEAN :
                  toggle_block_lock(u, "stored", e, lock)
    \/ free /\ \E u \in Users, block_id \in BlockIds \ {"stored"}, lock \in BOOLEAN :
                  toggle_block_lock(u, block_id, NoEvent, lock)
    \/ free /\ \E u \in Users, r \in Ranges : clear_ai_blocks(u, r[1], r[2])

\* the requests that change an event of the calendar
Updates(free) ==
    free /\ \E u \in Users, e \in BagToSet(calendar_events),
               update_data \in EventUpdates, times_valid \in BOOLEAN :
                 update_event(u, e, update_data, times_valid)

\* the steps of the generate_schedule request
Generate ==
    \/ \E u \in Users, r \in Ranges, regenerate \in BOOLEAN :
          gen_start(u, r[1], r[2], regenerate)
    \/ gen_pillars
    \/ gen_wipe
    \/ \E schedule \in Proposals : gen_propose("ok", schedule)
    \/ \E outcome \in {"fail", "raise"} : gen_propose(outcome, <<>>)
    \/ \E outcome \in {"ok", "raise"} : gen_insert(outcome)

\* one request at a time
NextSchedule == Calendar(GenIdle) \/ Generate

\* the blocks of a schedule maker that also sets is_locked and uses a type
\* the router does not know
TaggedBlocks ==
    [type : BlockTypes \cup {"BREAK", "NAP"}, start_time : {0}, is_locked : BOOLEAN]

TaggedProposals == UNION {[1..n -> TaggedBlocks] : n \in 0..MaxBlocks}

\* the requests of one user, one at a time, with such a schedule maker
NextTagging ==
    \/ Calendar(GenIdle)
    \/ Updates(GenIdle)
    \/ \E u \in Users, r \in Ranges, regenerate \in BOOLEAN :
          gen_start(u, r[1], r[2], regenerate)
    \/ gen_pillars
    \/ gen_wipe
    \/ \E schedule \in TaggedProposals : gen_propose("ok", schedule)
    \/ \E outcome \in {"fail", "raise"} : gen_propose(outcome, <<>>)
    \/ \E outcome \in {"ok", "raise"} : gen_insert(outcome)

SpecTagging == InitWith({"u1"}, WideCanvas) /\ [][NextTagging]_vars

SpecSchedule == InitWith({"u1", "u2"}, WideCanvas) /\ [][NextSchedule]_vars

-----------------------------------------------------------------------------
(* Properties of the schedule *)

\* the step is the wipe of the generate_schedule request in flight
WipeStep == gen.pc = "wipe" /\ gen'.pc # "wipe"

\* the step is a clear_ai_blocks request that deleted something
ClearStep ==
    /\ GenIdle /\ gen' = gen
    /\ resp'.op = "clear_ai_blocks"
    /\ calendar_events' # calendar_events

\* the step is a step of a generate_schedule request, and the request
GenStep == gen' # gen

GenRequest == IF gen.pc = "idle" THEN gen' ELSE gen

\* document e is in coll2 as often as in coll1, at least
Survives(e, coll1, coll2) == CopiesIn(e, coll2) >= CopiesIn(e, coll1)

\* C8: lock protection. An event with is_locked = TRUE that exists before
\* the wipe of generate_schedule(regenerate=true) or before clear_ai_blocks
\* still exists after it.
C8_LockProtection ==
    [][(WipeStep \/ ClearStep) =>
         \A e \in BagToSet(calendar_events) :
            e.is_locked => Survives(e, calendar_events, calendar_events')]_vars

\* C9: wipe scope. No step of a generate_schedule(regenerate=true) request
\* deletes or modifies an event of another user, an event whose source is
\* not CAMPUSMIND_AI, or an event that starts outside [start, end].
C9_WipeScope ==
    [][(GenStep /\ GenRequest.regenerate) =>
         \A e \in BagToSet(calendar_events) :
            ~(/\ e.user_id = GenRequest.user
              /\ e.source = "CAMPUSMIND_AI"
              /\ InRange(e.start_time, GenRequest.start, GenRequest.end)) =>
               Survives(e, calendar_events, calendar_events')]_vars

\* a wipe has deleted a generated block and left a manual event of type
\* "other" of the same user in the range
C9_Witness ==
    /\ gen.pc = "propose" /\ gen.regenerate /\ gen.deleted = 1
    /\ \E e \in BagToSet(calendar_events) :
          /\ e.user_id = gen.user /\ e.source = "none" /\ e.event_type = "other"
          /\ InRange(e.start_time, gen.start, gen.end)

RECURSIVE ProposalBag(_, _, _, _)
\* the documents of the blocks of a proposal that start in [start, end]
ProposalBag(schedule, uid, start, end) ==
    IF schedule = <<>> THEN EmptyBag
    ELSE LET rest == ProposalBag(Tail(schedule), uid, start, end) IN
         IF InRange(Head(schedule).start_time, start, end)
         THEN rest (+) SetToBag({AIEvent(uid, Head(schedule))})
         ELSE rest

\* C10: atomic replacement. When generate_schedule(regenerate=true) returns,
\* the unlocked generated blocks of the user in the range are the blocks of
\* the committed proposal if it succeeded, and the blocks there were before
\* the call if it failed.
C10_AtomicReplacement ==
    [][(gen.pc # "idle" /\ gen'.pc = "idle" /\ gen.regenerate) =>
         UnlockedBlocks(calendar_events', gen.user, gen.start, gen.end) =
            IF resp'.code = 200
            THEN ProposalBag(gen.schedule, gen.user, gen.start, gen.end)
            ELSE gen.before]_vars

-----------------------------------------------------------------------------
(* SyncService: the push of the Canvas assignments to Google Calendar *)

\* at most MaxGoogleEvents events are created in Google Calendar
MaxGoogleEvents == 2

\* "due_at" of an assignment: absent, before now, after now
Dues == {"none", "past", "future"}

\* a due_at that is the very instant of the comparison, and due_at strings
\* with a UTC offset ("...Z"), before and after now
AllDues == Dues \cup {"now", "past+00:00", "future+00:00"}

\* fromisoformat(due_at.replace("Z", "+00:00")) has a tzinfo
offset_aware(due_at) == due_at \in {"past+00:00", "future+00:00"}

\* `due_date < datetime.utcnow()` for a due_date without tzinfo
before_utcnow(due_at) == due_at = "past"

\* one course with two assignments
PushCanvas ==
    [courses |-> <<"c1">>,
     assignments |-> [c \in {"c1"} |-> <<"a1", "a2">>],
     wf |-> [a \in Assignments |-> "unsubmitted"],
     due |-> [a \in Assignments |-> "future"]]

\* the courses a client asks SyncService to track
PushCourses == {"c1"}

\* the documents of a collection a {"user_id"} filter matches
MatchUser(coll, uid) == {d \in BagToSet(coll) : d.user_id = uid}

\* the documents of db.tracked_courses a {"user_id", "course_id"} filter matches
MatchTracked(coll, uid, c) ==
    {d \in BagToSet(coll) : d.user_id = uid /\ d.course_id = c}

\* the documents of db.canvas_assignments a {"user_id", "id"} filter matches
MatchSynced(coll, uid, id) ==
    {d \in BagToSet(coll) : d.user_id = uid /\ d.id = id}

\* update_one(filter, {"$set": ...}): change maps each matched document to
\* what the $set makes of it; one matched document is changed
update_one_set(coll, change) ==
    IF DOMAIN change = {}
    THEN {coll}
    ELSE {(coll (-) SetToBag({d})) (+) SetToBag({change[d]}) : d \in DOMAIN change}

\* update_one(filter, {"$set": ...}, upsert=True): one matched document is
\* changed, or doc is inserted when none matches
update_one_set_upsert(coll, change, doc) ==
    IF DOMAIN change = {}
    THEN {coll (+) SetToBag({doc})}
    ELSE update_one_set(coll, change)

\* the access tokens Google issues, and the refresh token of a grant
Tokens == {"t1", "t2"}

RefreshTokens == {"r1"}

\* timedelta(minutes=5) of get_valid_access_token
RefreshMargin == 5

\* the minutes from now to expires_at, at and on both sides of the margin:
\* a token is saved with an expiry beyond the margin
Ttls == (RefreshMargin - 1)..(RefreshMargin + 1)

expires_in == RefreshMargin + 1

needs_refresh_at_margin(ttl) == ttl <= RefreshMargin

\* `expires_at < datetime.utcnow() + timedelta(minutes=5)`
needs_refresh(ttl) == ttl < RefreshMargin

\* the document save_user_tokens writes
TokenDoc(uid, access_token, refresh_token, ttl) ==
    [user_id |-> uid, access_token |-> access_token,
     refresh_token |-> refresh_token, ttl |-> ttl]

\* the most meeting times a tracked course is given
MaxMeetingTimes == 2

\* the meeting times a client adds to a course
MeetingTimes == {"MWF 10:00", "TR 9:30"}

\* tracked_course of SyncService.track_courses
TrackedDoc(uid, c) ==
    [user_id |-> uid, course_id |-> c, is_tracked |-> TRUE,
     meeting_times |-> <<>>, last_synced |-> FALSE]

\* a field a document does not have is "absent"
SyncStateDoc(uid, last, status, error) ==
    [user_id |-> uid, last_canvas_sync |-> last, last_sync_status |-> status,
     last_sync_error |-> error]

SyncedDoc(id, uid, c, g) ==
    [id |-> id, user_id |-> uid, course_id |-> c, google_event_id |-> g]

\* the results of sync_canvas_to_calendar
Skipped == [status |-> "skipped", message |-> "Sync not needed yet"]

NotConnected_success ==
    [status |-> "success", message |-> "Google Calendar not connected"]

NotConnected == [status |-> "error", message |-> "Google Calendar not connected"]

NotTracking == [status |-> "error", message |-> "No courses being tracked"]

Synced(p) ==
    [status |-> "success", synced_count |-> p.synced_count,
     failed_count |-> p.failed_count, created_events |-> p.created_events,
     errors |-> p.errors]

\* APIResponse(success=result["status"] in ["success", "skipped"], ...)
APIResponse(result) ==
    [op |-> "sync_canvas_to_calendar",
     success |-> result.status \in {"success", "skipped"},
     message |-> IF "message" \in DOMAIN result
                 THEN result.message ELSE "Sync completed",
     data |-> result]

\* the orders a cursor may return the set S in
Orders(S) ==
    {o \in [1..Cardinality(S) -> S] : \A i, j \in DOMAIN o : o[i] = o[j] => i = j}

\* SyncService.save_user_tokens
save_user_tokens(u, access_token, refresh_token, ttl) ==
    google_tokens' \in
       update_one_set_upsert(google_tokens,
                             [d \in MatchUser(google_tokens, u) |->
                                TokenDoc(u, access_token, refresh_token, ttl)],
                             TokenDoc(u, access_token, refresh_token, ttl))

\* the user connects Google Calendar: the tokens of the grant are saved
connect(u, access_token, refresh_token) ==
    /\ \A d \in MatchUser(google_tokens, u) : d.access_token # access_token
    /\ save_user_tokens(u, access_token, refresh_token, expires_in)
    /\ UNCHANGED <<tracked_courses, sync_state, canvas_assignments,
                   google_calendar, push, canvas, resp>>
    /\ UNCHANGED notPush

\* time passes: the token of u is a minute closer to its expiry
token_ages(u) ==
    /\ \E d \in MatchUser(google_tokens, u) :
          /\ d.ttl - 1 \in Ttls
          /\ google_tokens' = (google_tokens (-) SetToBag({d}))
                                 (+) SetToBag({[d EXCEPT !.ttl = @ - 1]})
    /\ UNCHANGED <<tracked_courses, sync_state, canvas_assignments,
                   google_calendar, push, canvas, resp>>
    /\ UNCHANGED notPush

\* time passes: the last sync of u is auto_sync_interval_hours ago
interval_passes(u) ==
    /\ \E d \in MatchUser(sync_state, u) :
          /\ d.last_canvas_sync = "recent"
          /\ sync_state' = (sync_state (-) SetToBag({d}))
                              (+) SetToBag({[d EXCEPT !.last_canvas_sync = "old"]})
    /\ UNCHANGED <<google_tokens, tracked_courses, canvas_assignments,
                   google_calendar, push, canvas, resp>>
    /\ UNCHANGED notPush

\* SyncService.enable_auto_sync
enable_auto_sync(u) ==
    /\ sync_state' \in
          update_one_set_upsert(sync_state, [d \in MatchUser(sync_state, u) |->
                                   d],
                                SyncStateDoc(u, "absent", "absent", "absent"))
    /\ UNCHANGED <<google_tokens, tracked_courses, canvas_assignments,
                   google_calendar, push, canvas, resp>>
    /\ UNCHANGED notPush

track_again_anew(d) == TrackedDoc(d.user_id, d.course_id)

\* {"$set": {"is_tracked": True}} on the existing document
track_again(d) == [d EXCEPT !.is_tracked = TRUE]

\* SyncService.track_courses, for a list of one course
SyncService_track_courses(u, c, outcome) ==
    /\ IF outcome = "ok"
       THEN tracked_courses' \in
               update_one_set_upsert(tracked_courses,
                                     [d \in MatchTracked(tracked_courses, u, c) |->
                                        track_again(d)],
                                     TrackedDoc(u, c))
       ELSE UNCHANGED tracked_courses
    /\ UNCHANGED <<google_tokens, sync_state, canvas_assignments,
                   google_calendar, push, canvas, resp>>
    /\ UNCHANGED notPush

\* SyncService.untrack_course
untrack_course(u, c) ==
    /\ tracked_courses' \in
          update_one_set(tracked_courses, [d \in MatchTracked(tracked_courses, u, c) |->
                            [d EXCEPT !.is_tracked = FALSE]])
    /\ UNCHANGED <<google_tokens, sync_state, canvas_assignments,
                   google_calendar, push, canvas, resp>>
    /\ UNCHANGED notPush

\* SyncService.add_meeting_time
add_meeting_time(u, c, meeting_time) ==
    /\ \A d \in MatchTracked(tracked_courses, u, c) :
          Len(d.meeting_times) < MaxMeetingTimes
    /\ tracked_courses' \in
          update_one_set(tracked_courses, [d \in MatchTracked(tracked_courses, u, c) |->
                            [d EXCEPT !.meeting_times = Append(@, meeting_time)]])
    /\ UNCHANGED <<google_tokens, sync_state, canvas_assignments,
                   google_calendar, push, canvas, resp>>
    /\ UNCHANGED notPush

\* the teacher sets, moves or removes the due date of an assignment
provider_due(a, d) ==
    /\ a \in DOMAIN canvas.due
    /\ canvas.due[a] # d
    /\ canvas' = [canvas EXCEPT !.due[a] = d]
    /\ UNCHANGED <<google_tokens, tracked_courses, sync_state,
                   canvas_assignments, google_calendar, push, resp>>
    /\ UNCHANGED notPush

\* return result: the router wraps it in an APIResponse
PushReturn(result) ==
    /\ push' = NoPush
    /\ resp' = APIResponse(result)

sync_not_needed_forced(force, found, last_sync) ==
    found # {} /\ last_sync = "recent"

\* `if not force and sync_state:` and `if last_sync and utcnow() - last_sync
\* < timedelta(hours=interval_hours)`; last_sync is "recent" when it is less
\* than the interval ago
sync_not_needed(force, found, last_sync) ==
    ~force /\ found # {} /\ last_sync = "recent"

\* sync_state = find_one({"user_id": user_id}); the skip check
push_start(u, force) ==
    /\ push.pc = "idle"
    /\ LET found == MatchUser(sync_state, u) IN
       \E last_sync \in (IF found = {} THEN {"absent"}
                         ELSE {d.last_canvas_sync : d \in found}) :
          IF sync_not_needed(force, found, last_sync)
          THEN PushReturn(Skipped)
          ELSE /\ push' = [NoPush EXCEPT !.pc = "tokens", !.user = u,
                                         !.force = force]
               /\ resp' = NoResp
    /\ UNCHANGED <<google_tokens, tracked_courses, sync_state,
                   canvas_assignments, google_calendar, canvas>>
    /\ UNCHANGED notPush

\* get_valid_access_token: tokens = get_user_tokens(user_id)
push_tokens ==
    /\ push.pc = "tokens"
    /\ LET tokens == MatchUser(google_tokens, push.user) IN
       IF tokens = {}
       THEN PushReturn(NotConnected)
       ELSE /\ \E t \in tokens :
                 push' = IF needs_refresh(t.ttl)
                         THEN [push EXCEPT !.pc = "refresh", !.tokens = t]
                         ELSE [push EXCEPT !.pc = "tracked",
                                           !.access_token = t.access_token]
            /\ UNCHANGED resp
    /\ UNCHANGED <<google_tokens, tracked_courses, sync_state,
                   canvas_assignments, google_calendar, canvas>>
    /\ UNCHANGED notPush

\* get_valid_access_token: google.refresh_access_token(refresh_token)
push_refresh(outcome) ==
    /\ push.pc = "refresh"
    /\ IF outcome = "ok"
       THEN /\ \E t \in Tokens \ {push.tokens.access_token} :
                 push' = [push EXCEPT !.pc = "save", !.new_tokens = t]
            /\ UNCHANGED resp
       ELSE PushReturn(NotConnected)
    /\ UNCHANGED <<google_tokens, tracked_courses, sync_state,
                   canvas_assignments, google_calendar, canvas>>
    /\ UNCHANGED notPush

\* get_valid_access_token: save_user_tokens(...) of the refreshed token,
\* with the refresh token it was refreshed with
push_save(outcome) ==
    /\ push.pc = "save"
    /\ IF outcome = "ok"
       THEN /\ save_user_tokens(push.user, push.new_tokens,
                                push.tokens.refresh_token, expires_in)
            /\ push' = [push EXCEPT !.pc = "tracked",
                                    !.access_token = push.new_tokens,
                                    !.tokens = NoTokens, !.new_tokens = "none"]
            /\ UNCHANGED resp
       ELSE /\ PushReturn(NotConnected)
            /\ UNCHANGED google_tokens
    /\ UNCHANGED <<tracked_courses, sync_state, canvas_assignments,
                   google_calendar, canvas>>
    /\ UNCHANGED notPush

\* tracked_courses = get_tracked_courses(user_id)
push_tracked ==
    /\ push.pc = "tracked"
    /\ LET tracked == {d.course_id : d \in
                          {t \in MatchUser(tracked_courses, push.user) :
                              t.is_tracked}} IN
       IF tracked = {}
       THEN PushReturn(NotTracking)
       ELSE /\ \E o \in Orders(tracked) :
                 push' = [push EXCEPT !.pc = "fetch", !.courses = o]
            /\ UNCHANGED resp
    /\ UNCHANGED <<google_tokens, tracked_courses, sync_state,
                   canvas_assignments, google_calendar, canvas>>
    /\ UNCHANGED notPush

\* an item failed: failed_count += 1; errors.append(str(e))
Failed(p, e) ==
    [p EXCEPT !.failed_count = @ + 1, !.errors = Append(@, e)]

\* the course is done with: the next one, or the end of the pass
PushNextCourse(p) ==
    push' = [p EXCEPT !.courses = Tail(@), !.assignments = <<>>,
                      !.pc = IF Tail(p.courses) = <<>> THEN "state" ELSE "fetch"]

RECURSIVE PushNextAssignment(_)
\* `for assignment in assignments`, past those without due_at
PushNextAssignment(p) ==
    IF p.assignments = <<>>
    THEN push' = [p EXCEPT !.pc = "mark"]
    ELSE IF Head(p.assignments).due_at = "none"
         THEN PushNextAssignment([p EXCEPT !.assignments = Tail(@)])
         ELSE push' = [p EXCEPT !.pc = "find"]

\* the assignment is done with
PushDone(p) ==
    PushNextAssignment([p EXCEPT !.assignments = Tail(@), !.existing = 0,
                                 !.created_event = 0])

\* assignments = canvas.get_assignments(course_id, include=["submission"]):
\* of each assignment the loop reads "id" and "due_at".  canvas_service.py
\* defines neither the canvas_service instance nor a get_assignments method;
\* the call is modelled by what sync_canvas_to_calendar does with its result
get_assignments(c) ==
    [i \in DOMAIN canvas.assignments[c] |->
        [id |-> canvas.assignments[c][i],
         due_at |-> canvas.due[canvas.assignments[c][i]]]]

push_fetch(outcome) ==
    /\ push.pc = "fetch"
    /\ LET c == Head(push.courses) IN
       IF outcome = "ok"
       THEN /\ c \in DOMAIN canvas.assignments
            /\ PushNextAssignment([push EXCEPT !.assignments = get_assignments(c)])
       ELSE PushNextCourse(Failed(push, "fetch"))
    /\ UNCHANGED <<google_tokens, tracked_courses, sync_state,
                   canvas_assignments, google_calendar, canvas, resp>>
    /\ UNCHANGED notPush

\* existing = db.canvas_assignments.find_one(...); `if due_date < utcnow()`,
\* which raises TypeError when due_date has a tzinfo: utcnow() has none, and
\* the except of the course loop takes it
push_find ==
    /\ push.pc = "find"
    /\ LET a == Head(push.assignments)
           found == MatchSynced(canvas_assignments, push.user, a.id) IN
       \E g \in (IF found = {} THEN {0} ELSE {d.google_event_id : d \in found}) :
          IF offset_aware(a.due_at)
          THEN PushNextCourse(Failed(push, "compare"))
          ELSE IF before_utcnow(a.due_at)
          THEN PushDone(push)
          ELSE push' = [push EXCEPT !.pc = "call", !.existing = g]
    /\ UNCHANGED <<google_tokens, tracked_courses, sync_state,
                   canvas_assignments, google_calendar, canvas, resp>>
    /\ UNCHANGED notPush

has_event_never(existing) == FALSE

\* `if existing and existing.get("google_event_id")`: existing is the stored
\* google_event_id, 0 when there is none
has_event(existing) == existing # 0

\* google.update_event(...) of the stored event, or google.create_event(...)
push_call(outcome) ==
    /\ push.pc = "call"
    /\ IF outcome # "ok"
       THEN /\ PushDone(Failed(push, "google"))
            /\ UNCHANGED google_calendar
       ELSE IF has_event(push.existing)
            THEN /\ PushDone([push EXCEPT !.synced_count = @ + 1])
                 /\ UNCHANGED google_calendar
            ELSE /\ Cardinality(google_calendar) < MaxGoogleEvents
                 /\ LET id == Cardinality(google_calendar) + 1 IN
                    /\ google_calendar' = google_calendar \cup
                          {[id |-> id, user_id |-> push.user,
                            assignment |-> Head(push.assignments).id]}
                    /\ push' = [push EXCEPT !.pc = "store", !.created_event = id]
    /\ UNCHANGED <<google_tokens, tracked_courses, sync_state,
                   canvas_assignments, canvas, resp>>
    /\ UNCHANGED notPush

\* db.canvas_assignments.update_one(..., upsert=True) of the created event
push_store(outcome) ==
    /\ push.pc = "store"
    /\ LET a == Head(push.assignments)
           doc == SyncedDoc(a.id, push.user, Head(push.courses),
                            push.created_event) IN
       IF outcome = "ok"
       THEN /\ canvas_assignments' \in
                  update_one_set_upsert(canvas_assignments,
                                        [d \in MatchSynced(canvas_assignments, push.user, a.id) |->
                                           doc], doc)
            /\ PushDone([push EXCEPT !.created_events = @ + 1,
                                     !.synced_count = @ + 1])
       ELSE /\ PushDone(Failed(push, "store"))
            /\ UNCHANGED canvas_assignments
    /\ UNCHANGED <<google_tokens, tracked_courses, sync_state,
                   google_calendar, canvas, resp>>
    /\ UNCHANGED notPush

\* db.tracked_courses.update_one(..., {"$set": {"last_synced": ...}})
push_mark(outcome) ==
    /\ push.pc = "mark"
    /\ IF outcome = "ok"
       THEN /\ tracked_courses' \in
                  update_one_set(tracked_courses,
                                 [d \in MatchTracked(tracked_courses, push.user, Head(push.courses)) |->
                                    [d EXCEPT !.last_synced = TRUE]])
            /\ PushNextCourse(push)
       ELSE /\ PushNextCourse(Failed(push, "mark"))
            /\ UNCHANGED tracked_courses
    /\ UNCHANGED <<google_tokens, sync_state, canvas_assignments,
                   google_calendar, canvas, resp>>
    /\ UNCHANGED notPush

\* db.sync_state.update_one(..., upsert=True); return the counts
push_state ==
    /\ push.pc = "state"
    /\ LET doc == SyncStateDoc(push.user, "recent",
                               IF push.failed_count = 0
                               THEN "success" ELSE "partial",
                               IF push.errors # <<>>
                               THEN Head(push.errors) ELSE "none") IN
       sync_state' \in
          update_one_set_upsert(sync_state, [d \in MatchUser(sync_state, push.user) |->
                                   doc], doc)
    /\ PushReturn(Synced(push))
    /\ UNCHANGED <<google_tokens, tracked_courses, canvas_assignments,
                   google_calendar, canvas>>
    /\ UNCHANGED notPush

PushIdle == push.pc = "idle"

\* the requests of the clients to their Google token and tracked courses
PushSettings(free) ==
    \/ free /\ \E u \in Users, t \in Tokens, r \in RefreshTokens : connect(u, t, r)
    \/ free /\ \E u \in Users : token_ages(u)
    \/ free /\ \E u \in Users, c \in PushCourses, o \in {"ok", "raise"} :
                  SyncService_track_courses(u, c, o)
    \/ free /\ \E u \in Users, c \in PushCourses : untrack_course(u, c)

\* the clock, the auto-sync setting and the provider
PushWorld(free) ==
    \/ free /\ \E u \in Users : interval_passes(u)
    \/ free /\ \E u \in Users : enable_auto_sync(u)
    \/ free /\ \E a \in Assignments, d \in Dues : provider_due(a, d)

PushEnv(free) == PushSettings(free) \/ PushWorld(free)

\* the requests of the clients to the tracked courses of SyncService
Tracking(free) ==
    \/ free /\ \E u \in Users, c \in PushCourses, o \in {"ok", "raise"} :
                  SyncService_track_courses(u, c, o)
    \/ free /\ \E u \in Users, c \in PushCourses : untrack_course(u, c)
    \/ free /\ \E u \in Users, c \in PushCourses, meeting_time \in MeetingTimes :
                  add_meeting_time(u, c, meeting_time)

\* the steps of the sync_canvas_to_calendar request, which starts when free
PushWhen(free) ==
    \/ free /\ \E u \in Users, force \in BOOLEAN : push_start(u, force)
    \/ push_tokens
    \/ \E o \in {"ok", "raise"} : push_refresh(o)
    \/ \E o \in {"ok", "raise"} : push_save(o)
    \/ push_tracked
    \/ \E o \in {"ok", "raise"} : push_fetch(o)
    \/ push_find
    \/ \E o \in {"ok", "raise"} : push_call(o)
    \/ \E o \in {"ok", "raise"} : push_store(o)
    \/ \E o \in {"ok", "raise"} : push_mark(o)
    \/ push_state

Push == PushWhen(TRUE)

\* one request at a time
NextPush == PushEnv(PushIdle) \/ Push

\* the same over a course with one assignment
SpecSkip == InitWith({"u1"}, DeepCanvas) /\ [][NextPush]_vars

\* the pass of a user whose token is fresh, over due dates of every kind
NextEligible ==
    \/ PushIdle /\ \E u \in Users : connect(u, "t1", "r1")
    \/ PushIdle /\ \E u \in Users, c \in PushCourses :
                     SyncService_track_courses(u, c, "ok")
    \/ PushIdle /\ \E a \in Assignments, d \in AllDues : provider_due(a, d)
    \/ \E u \in Users, force \in BOOLEAN : push_start(u, force)
    \/ push_tokens
    \/ push_tracked
    \/ \E o \in {"ok", "raise"} : push_fetch(o)
    \/ push_find
    \/ \E o \in {"ok", "raise"} : push_call(o)
    \/ \E o \in {"ok", "raise"} : push_store(o)
    \/ \E o \in {"ok", "raise"} : push_mark(o)
    \/ push_state

SpecEligible == InitWith({"u1"}, PushCanvas) /\ [][NextEligible]_vars

-----------------------------------------------------------------------------
(* agents/sync_agent.py: check_calendar_availability, a second caller of     *)
(* SyncService.get_valid_access_token                                        *)

\* what the tool call leaves alone
notTool == <<pull, expansion, canvas_token, tracked_course_ids, canvas, canvas_courses,
             assignments, sync, hist, calendar_events, gen, tracked_courses,
             sync_state, canvas_assignments, google_calendar, push>>

\* the dict the tool returns to the agent
ToolAnswer(u, available, error) ==
    [op |-> "check_calendar_availability", user |-> u,
     available |-> available, error |-> error]

ToolReturn(answer) ==
    /\ tool' = NoTool
    /\ resp' = answer

\* `if not access_token: return {"available": False, "error": ...}`
ToolNotConnected == ToolAnswer(tool.user, FALSE, "Calendar not connected")

\* the agent calls the tool for user u
tool_start(u) ==
    /\ tool.pc = "idle"
    /\ tool' = [NoTool EXCEPT !.pc = "tokens", !.user = u]
    /\ resp' = NoResp
    /\ UNCHANGED google_tokens
    /\ UNCHANGED notTool

\* get_valid_access_token: tokens = get_user_tokens(user_id)
tool_tokens ==
    /\ tool.pc = "tokens"
    /\ LET tokens == MatchUser(google_tokens, tool.user) IN
       IF tokens = {}
       THEN ToolReturn(ToolNotConnected)
       ELSE /\ \E t \in tokens :
                 tool' = IF needs_refresh(t.ttl)
                         THEN [tool EXCEPT !.pc = "refresh", !.tokens = t]
                         ELSE [tool EXCEPT !.pc = "events",
                                           !.access_token = t.access_token]
            /\ UNCHANGED resp
    /\ UNCHANGED google_tokens
    /\ UNCHANGED notTool

\* get_valid_access_token: google.refresh_access_token(refresh_token)
tool_refresh(outcome) ==
    /\ tool.pc = "refresh"
    /\ IF outcome = "ok"
       THEN /\ \E t \in Tokens \ {tool.tokens.access_token} :
                 tool' = [tool EXCEPT !.pc = "save", !.new_tokens = t]
            /\ UNCHANGED resp
       ELSE ToolReturn(ToolNotConnected)
    /\ UNCHANGED google_tokens
    /\ UNCHANGED notTool

\* get_valid_access_token: save_user_tokens(...) of the refreshed token
tool_save(outcome) ==
    /\ tool.pc = "save"
    /\ IF outcome = "ok"
       THEN /\ save_user_tokens(tool.user, tool.new_tokens,
                                tool.tokens.refresh_token, expires_in)
            /\ tool' = [tool EXCEPT !.pc = "events",
                                    !.access_token = tool.new_tokens,
                                    !.tokens = NoTokens, !.new_tokens = "none"]
            /\ UNCHANGED resp
       ELSE /\ ToolReturn(ToolNotConnected)
            /\ UNCHANGED google_tokens
    /\ UNCHANGED notTool

\* events = google_calendar_service.get_events(access_token, ...)
tool_events(outcome) ==
    /\ tool.pc = "events"
    /\ IF outcome = "ok"
       THEN \E available \in BOOLEAN :
               ToolReturn(ToolAnswer(tool.user, available, "none"))
       ELSE ToolReturn(ToolAnswer(tool.user, FALSE, "raise"))
    /\ UNCHANGED google_tokens
    /\ UNCHANGED notTool

ToolIdle == tool.pc = "idle"

\* the steps of the tool call, which starts when free
ToolWhen(free) ==
    \/ free /\ \E u \in Users : tool_start(u)
    \/ tool_tokens
    \/ \E o \in {"ok", "raise"} : tool_refresh(o)
    \/ \E o \in {"ok", "raise"} : tool_save(o)
    \/ \E o \in {"ok", "raise"} : tool_events(o)

\* the token of a user and its age
TokenSettings(free) ==
    \/ free /\ \E u \in Users, t \in Tokens, r \in RefreshTokens : connect(u, t, r)
    \/ free /\ \E u \in Users : token_ages(u)

\* get_valid_access_token, one call at a time
NextTokens == TokenSettings(ToolIdle) \/ ToolWhen(TRUE)

SpecTokens == InitWith({"u1", "u2"}, PushCanvas) /\ [][NextTokens]_vars

\* a calendar sync and a tool call of a user who tracks no course, at any
\* time: two callers of get_valid_access_token
NextRefresh ==
    \/ TokenSettings(TRUE)
    \/ \E u \in Users, force \in BOOLEAN : push_start(u, force)
    \/ push_tokens
    \/ \E o \in {"ok", "raise"} : push_refresh(o)
    \/ \E o \in {"ok", "raise"} : push_save(o)
    \/ push_tracked
    \/ ToolWhen(TRUE)

SpecRefresh == InitWith({"u1"}, PushCanvas) /\ [][NextRefresh]_vars

SpecPush == InitWith({"u1"}, PushCanvas) /\ [][NextPush]_vars

\* both sync operations, one request at a time, of one user whose provider
\* does not change
NextOutcomes ==
    \/ Settings(Idle /\ PushIdle, DeepTrackRequests)
    \/ PassWhen(PushIdle)
    \/ PushSettings(Idle /\ PushIdle)
    \/ PushWhen(Idle)

SpecOutcomes == InitWith({"u1"}, DeepCanvas) /\ [][NextOutcomes]_vars

\* the tracked courses of both kinds, the course sync and the events of the
\* calendar, one request at a time
NextTracking ==
    \/ Settings(Idle, DeepTrackRequests)
    \/ Pass
    \/ Tracking(Idle)
    \/ Idle /\ \E u \in Users, type \in EventTypes, t \in Times :
                  create_event(u, type, t)

SpecTracking == InitWith({"u1"}, DeepCanvas) /\ [][NextTracking]_vars

AllIdle == Idle /\ GenIdle

\* two users, one request at a time: both sync their courses, set the status
\* of assignments and fill their calendars; u1 is the caller whose requests
\* to the calendar and the schedule name the events of either user
NextIsolation ==
    \/ AllIdle /\ \E u \in Users : save_canvas_token(u)
    \/ AllIdle /\ \E u \in Users : track_courses(u, {"c1"})
    \/ PassWhen(GenIdle)
    \/ AllIdle /\ \E u \in Users, a \in Assignments :
                    update_assignment_status(u, a, "completed")
    \/ AllIdle /\ \E u \in Users : create_event(u, "other", 0)
    \/ AllIdle /\ \E e \in BagToSet(calendar_events) : delete_event("u1", e)
    \/ AllIdle /\ \E e \in BagToSet(calendar_events), lock \in BOOLEAN :
                    toggle_block_lock("u1", "stored", e, lock)
    \/ AllIdle /\ \E e \in BagToSet(calendar_events), times_valid \in BOOLEAN,
                    update_data \in {[title |-> "new title"], [start_time |-> 0]} :
                      update_event("u1", e, update_data, times_valid)
    \/ AllIdle /\ clear_ai_blocks("u1", 0, MaxTime)
    \/ Idle /\ gen_start("u1", 0, MaxTime, TRUE)
    \/ Idle /\ gen_start("u2", 0, MaxTime, FALSE)
    \/ gen_pillars
    \/ gen_wipe
    \/ gen.user = "u2" /\ gen_propose("ok", <<[type |-> "STUDY_BLOCK", start_time |-> 0]>>)
    \/ gen.user = "u1" /\ gen_propose("ok", <<>>)
    \/ gen_insert("ok")


SpecIsolation == InitWith({"u1", "u2"}, DeepCanvas) /\ [][NextIsolation]_vars

-----------------------------------------------------------------------------
(* routers/canvas.py: sync_canvas_calendar, POST /canvas/calendar/sync, the  *)
(* pull of the Canvas calendar events into db.calendar_events                *)

\* the calendar events of the provider: their id and context_code
CanvasEvents == [id : {"x1", "x2"}, context_code : {"user_self", "course_c1"}]

\* the lists fetch_canvas_calendar_events may return: the provider lists an
\* event once; [] also stands for a failed fetch
FetchResults ==
    {o \in UNION {[1..n -> CanvasEvents] : n \in 0..2} :
        \A i, j \in DOMAIN o : o[i].id = o[j].id => i = j}

\* map_canvas_event_to_calendar_event: the fields of the $set document that
\* the sync depends on; is_locked and source are not among them
map_canvas_event_to_calendar_event(canvas_event, user_id) ==
    [user_id |-> user_id,
     event_type |-> IF canvas_event.context_code = "user_self"
                    THEN "personal" ELSE "academic",
     canvas_id |-> canvas_event.id,
     created_at |-> "now",
     updated_at |-> "now"]

\* {"$setOnInsert": {"created_at": datetime.utcnow()}}
set_on_insert == [created_at |-> "now"]

\* the filter {"canvas_id": ..., "user_id": ...}
MatchPulled(coll, uid, id) ==
    {d \in BagToSet(coll) : /\ "canvas_id" \in DOMAIN d
                            /\ d.canvas_id = id /\ d.user_id = uid}

\* MongoDB refuses an update whose operators name the same path ("Updating
\* the path ... would create a conflict"): update_one raises a WriteError
Conflict(set, on_insert) == DOMAIN set \cap DOMAIN on_insert # {}

CanvasCalendarSyncResponse(u, events_synced) ==
    [op |-> "sync_canvas_calendar", user |-> u, code |-> 200, success |-> TRUE,
     events_synced |-> events_synced]

PullReturn(r) ==
    /\ pull' = NoPull
    /\ resp' = r

\* what the pull leaves alone
notPull == <<expansion, canvas_token, tracked_course_ids, canvas, canvas_courses,
             assignments, sync, hist, gen, google_tokens, tracked_courses,
             sync_state, canvas_assignments, google_calendar, push, tool>>

\* config = get_user_canvas_config(...)
pull_start(u) ==
    /\ pull.pc = "idle"
    /\ IF canvas_token[u]
       THEN /\ pull' = [NoPull EXCEPT !.pc = "fetch", !.user = u]
            /\ resp' = NoResp
       ELSE PullReturn(HTTPException("sync_canvas_calendar", u, 400))
    /\ UNCHANGED calendar_events
    /\ UNCHANGED notPull

\* canvas_events = fetch_canvas_calendar_events(...); the events are mapped
pull_fetch(canvas_events) ==
    /\ pull.pc = "fetch"
    /\ IF canvas_events = <<>>
       THEN PullReturn(CanvasCalendarSyncResponse(pull.user, 0))
       ELSE /\ pull' = [pull EXCEPT
                          !.pc = "upsert",
                          !.events = [i \in DOMAIN canvas_events |->
                                        map_canvas_event_to_calendar_event(
                                            canvas_events[i], pull.user)]]
            /\ UNCHANGED resp
    /\ UNCHANGED calendar_events
    /\ UNCHANGED notPull

\* db.calendar_events.update_one({canvas_id, user_id},
\*     {"$set": event, "$setOnInsert": {"created_at": ...}}, upsert=True)
pull_upsert ==
    /\ pull.pc = "upsert"
    /\ LET event == Head(pull.events) IN
       IF Conflict(event, set_on_insert)
       THEN /\ PullReturn(HTTPException("sync_canvas_calendar", pull.user, 500))
            /\ UNCHANGED calendar_events
       ELSE /\ calendar_events' \in
                  update_one_set_upsert(
                      calendar_events,
                      [d \in MatchPulled(calendar_events, pull.user,
                                         event.canvas_id) |-> event @@ d],
                      event @@ set_on_insert)
            /\ IF Tail(pull.events) = <<>>
               THEN PullReturn(CanvasCalendarSyncResponse(
                                   pull.user, pull.events_synced + 1))
               ELSE /\ pull' = [pull EXCEPT !.events = Tail(@),
                                            !.events_synced = @ + 1]
                    /\ UNCHANGED resp
    /\ UNCHANGED notPull

PullIdle == pull.pc = "idle"

\* the steps of the sync_canvas_calendar request
Pull ==
    \/ \E u \in Users : pull_start(u)
    \/ \E canvas_events \in FetchResults : pull_fetch(canvas_events)
    \/ pull_upsert

\* the Canvas token, the calendar and the pull, one request at a time
NextPull ==
    \/ PullIdle /\ \E u \in Users : save_canvas_token(u)
    \/ PullIdle /\ \E u \in Users : delete_canvas_token(u)
    \/ Calendar(PullIdle)
    \/ Pull

SpecPull == InitWith({"u1", "u2"}, WideCanvas) /\ [][NextPull]_vars

-----------------------------------------------------------------------------
(* routers/calendar.py: generate_class_events, the expansion of a weekly     *)
(* class into the events of a term.  A date is a day number, day 0 being a   *)
(* Monday; a datetime is a date and one of two times of the day, the early   *)
(* one standing for time(0, 0) and the late one for time(23, 59, 59).        *)

MaxDay == 9
MaxDaysOfWeek == 2

Dates == 0..MaxDay

\* time(0, 0) and time(23, 59, 59), in the order of the clock
Midnight == 0
EndOfDay == Midnight + 1
DayLength == EndOfDay + 1

Datetimes == 0..(DayLength * MaxDay + EndOfDay)

\* datetime.combine(date, time) and datetime.date()
combine(d, t) == DayLength * d + t

date(dt) == dt \div DayLength

\* timedelta(days=n)
timedelta_days(n) == DayLength * n

WeekDay ==
    {"monday", "tuesday", "wednesday", "thursday", "friday", "saturday",
     "sunday"}

get_weekday_index_sunday_first(day_name) ==
    CASE day_name = "sunday" -> 0
      [] day_name = "monday" -> 1
      [] day_name = "tuesday" -> 2
      [] day_name = "wednesday" -> 3
      [] day_name = "thursday" -> 4
      [] day_name = "friday" -> 5
      [] day_name = "saturday" -> 6
      [] OTHER -> 0

\* get_weekday_index: 0 = Monday, 6 = Sunday, and 0 for any other name
get_weekday_index(day_name) ==
    CASE day_name = "monday" -> 0
      [] day_name = "tuesday" -> 1
      [] day_name = "wednesday" -> 2
      [] day_name = "thursday" -> 3
      [] day_name = "friday" -> 4
      [] day_name = "saturday" -> 5
      [] day_name = "sunday" -> 6
      [] OTHER -> 0

\* calendar.weekday(year, month, day) of a datetime
weekday(dt) == date(dt) % 7

RECURSIVE first_occurrence(_, _, _)
\* the `while calendar.weekday(...) != weekday` loop: first_day moves on by a
\* day until it falls on the weekday, or is past term_end
first_occurrence(first_day, wd, term_end) ==
    IF weekday(first_day) = wd
    THEN first_day
    ELSE IF first_day + timedelta_days(1) > term_end
         THEN first_day + timedelta_days(1)
         ELSE first_occurrence(first_day + timedelta_days(1), wd, term_end)

RECURSIVE rrule(_, _)
\* list(rrule(freq=WEEKLY, dtstart=dtstart, until=until))
rrule(dtstart, until) ==
    IF dtstart > until
    THEN <<>>
    ELSE <<dtstart>> \o rrule(dtstart + timedelta_days(7), until)

\* the event document of an occurrence: its date and its two times
event_doc(class_event, occurrence) ==
    [date |-> date(occurrence),
     start_time |-> class_event.start_time,
     end_time |-> class_event.end_time]

RECURSIVE class_occurrences(_, _, _, _)
\* `for weekday in weekdays`: the events of the weekdays, one after the other
class_occurrences(class_event, weekdays, term_start, term_end) ==
    IF weekdays = <<>>
    THEN <<>>
    ELSE LET first_day == first_occurrence(term_start, Head(weekdays), term_end)
             occurrences == rrule(first_day, term_end) IN
         [i \in DOMAIN occurrences |-> event_doc(class_event, occurrences[i])]
            \o class_occurrences(class_event, Tail(weekdays), term_start, term_end)

generate_class_events(class_event) ==
    LET weekdays == [i \in DOMAIN class_event.days_of_week |->
                       get_weekday_index(class_event.days_of_week[i])]
        term_start == combine(date(class_event.term_start_date), Midnight)
        term_end == combine(date(class_event.term_end_date), EndOfDay)
    IN class_occurrences(class_event, weekdays, term_start, term_end)

\* the requests for a class: one or more days of the week, one pair of times
ClassEvents ==
    [days_of_week : UNION {[1..n -> WeekDay] : n \in 0..MaxDaysOfWeek},
     start_time : {"11:00"}, end_time : {"13:00"},
     term_start_date : Datetimes, term_end_date : Datetimes]

\* the call of generate_class_events for the request
expand ==
    /\ ~expansion.called
    /\ expansion' = [expansion EXCEPT
                       !.called = TRUE,
                       !.events = generate_class_events(expansion.class_event)]
    /\ UNCHANGED <<canvas_token, tracked_course_ids, canvas, canvas_courses,
                   assignments, sync, resp, hist, calendar_events, gen,
                   google_tokens, tracked_courses, sync_state,
                   canvas_assignments, google_calendar, push, tool, pull>>

NextExpand == expand

\* the request is any of ClassEvents
InitExpand ==
    /\ InitDatabase({"u1"}, WideCanvas)
    /\ expansion \in {[NoExpansion EXCEPT !.class_event = class_event] :
                         class_event \in ClassEvents}

SpecExpand == InitExpand /\ [][NextExpand]_vars

-----------------------------------------------------------------------------
(* routers/calendar.py: create_class_events, POST /calendar/classes.  A time *)
(* string is the sequence of its characters.                                 *)

Digits == <<"0", "1", "2", "3", "4", "5", "6", "7", "8", "9">>

IsDigit(c) == \E i \in DOMAIN Digits : Digits[i] = c

\* int() of one digit
DigitValue(c) == (CHOOSE i \in DOMAIN Digits : Digits[i] = c) - 1

RECURSIVE int(_)
\* int() of a string of digits
int(str) ==
    IF str = <<>> THEN 0
    ELSE 10 * int(SubSeq(str, 1, Len(str) - 1)) + DigitValue(str[Len(str)])

\* re.match(r"^\d{1,2}:\d{2}$", time_str)
matches_time_format(time_str) ==
    \E h \in 1..2 :
       /\ Len(time_str) = h + 3
       /\ \A i \in 1..h : IsDigit(time_str[i])
       /\ time_str[h + 1] = ":"
       /\ IsDigit(time_str[h + 2]) /\ IsDigit(time_str[h + 3])

hour_of(time_str) == int(SubSeq(time_str, 1, Len(time_str) - 3))

minute_of(time_str) == int(SubSeq(time_str, Len(time_str) - 1, Len(time_str)))

\* parse_time_str: TRUE when it returns a time, FALSE when it raises
\* ValueError
parse_time_str(time_str) ==
    /\ matches_time_format(time_str)
    /\ ~(hour_of(time_str) < 0 \/ hour_of(time_str) > 23
            \/ minute_of(time_str) < 0 \/ minute_of(time_str) > 59)

\* the time strings of the requests: valid ones, an hour and a minute out
\* of range, and one without colon
TimeStrs ==
    {<<"1", "1", ":", "0", "0">>, <<"9", ":", "3", "0">>,
     <<"2", "4", ":", "0", "0">>, <<"1", "1", ":", "6", "0">>,
     <<"1", "1", "0", "0">>}

\* the requests for a class on at most one day of the week
ClassRequests ==
    [days_of_week : {<<>>, <<"monday">>, <<"wednesday">>},
     start_time : TimeStrs,
     end_time : {<<"1", "3", ":", "0", "0">>, <<"2", "3", ":", "6", "0">>},
     term_start_date : Datetimes, term_end_date : Datetimes]

\* the document of a class event: the event of generate_class_events with
\* its user_id and event_type
ClassEventDoc(u, event) ==
    [user_id |-> u, event_type |-> "academic", is_recurring |-> TRUE,
     start_time |-> event.date, start_clock |-> event.start_time,
     end_clock |-> event.end_time]

BulkEventsResponse(events_created) ==
    [op |-> "create_class_events", code |-> 200, success |-> TRUE,
     events_created |-> events_created]

ClassReturn(r) ==
    /\ expansion' = [expansion EXCEPT !.pc = "done"]
    /\ resp' = r

\* what create_class_events leaves alone
notClasses == <<canvas_token, tracked_course_ids, canvas, canvas_courses,
                assignments, sync, hist, gen, google_tokens, tracked_courses,
                sync_state, canvas_assignments, google_calendar, push, tool,
                pull>>

\* user_doc = db.users.find_one(...); the term dates and the two time
\* strings are validated and the occurrences generated
class_validate ==
    /\ expansion.pc = "find"
    /\ LET class_event == expansion.class_event IN
       IF class_event.term_end_date <= class_event.term_start_date
       THEN ClassReturn(Answer("create_class_events", 400))
       ELSE IF ~(parse_time_str(class_event.start_time)
                 /\ parse_time_str(class_event.end_time))
       THEN ClassReturn(Answer("create_class_events", 400))
       ELSE LET events == generate_class_events(class_event) IN
            IF events = <<>>
            THEN /\ expansion' = [expansion EXCEPT !.pc = "done", !.called = TRUE]
                 /\ resp' = BulkEventsResponse(0)
            ELSE /\ expansion' = [expansion EXCEPT !.pc = "insert",
                                      !.called = TRUE, !.events = events]
                 /\ UNCHANGED resp
    /\ UNCHANGED calendar_events
    /\ UNCHANGED notClasses

\* result = db.calendar_events.insert_many(events)
class_insert(outcome) ==
    /\ expansion.pc = "insert"
    /\ IF outcome = "ok"
       THEN /\ calendar_events' = calendar_events (+)
                  SetToBag({ClassEventDoc(expansion.user, expansion.events[i]) :
                               i \in DOMAIN expansion.events})
            /\ ClassReturn(BulkEventsResponse(Len(expansion.events)))
       ELSE /\ ClassReturn(Answer("create_class_events", 500))
            /\ UNCHANGED calendar_events
    /\ UNCHANGED notClasses

NextClasses ==
    \/ class_validate
    \/ \E o \in {"ok", "raise"} : class_insert(o)

\* the request is any of ClassRequests
InitClasses ==
    /\ InitDatabase({"u1"}, WideCanvas)
    /\ expansion \in {[NoExpansion EXCEPT !.pc = "find", !.user = "u1",
                                           !.class_event = class_event] :
                         class_event \in ClassRequests}

SpecClasses == InitClasses /\ [][NextClasses]_vars

-----------------------------------------------------------------------------
(* Properties of the outcomes of the two sync operations *)

\* the step is the first step of a sync_canvas_data request
CourseStart ==
    StartStep /\ (sync'.pc # "idle" \/ resp'.op = "sync_canvas_data")

\* the step is the return of sync_canvas_to_calendar for want of a token
PushNoToken == push.pc \in {"tokens", "refresh"} /\ push'.pc = "idle"

\* the step is the return of sync_canvas_to_calendar for want of a tracked
\* course: the user has a valid token
PushNothingToDo == push.pc = "tracked" /\ push'.pc = "idle"

\* C7: nothing-to-do is distinguishable from failed. Each sync operation
\* answers a user who has no valid token with its no-token outcome, and
\* answers a user who has a token and tracks no course with a success whose
\* success/status value differs from the one of the no-token outcome.
C7_NothingToDoNotFailed ==
    [][/\ (CourseStart /\ ~canvas_token[StartedBy]) =>
             resp' = HTTPException("sync_canvas_data", StartedBy, 400)
       /\ (CourseStart /\ canvas_token[StartedBy]
                       /\ tracked_course_ids[StartedBy] = {}) =>
             /\ resp'.success
             /\ resp'.success #
                   HTTPException("sync_canvas_data", StartedBy, 400).success
       /\ PushNoToken => resp' = APIResponse(NotConnected)
       /\ PushNothingToDo =>
             /\ resp'.success
             /\ resp'.data.status # "error"
             /\ resp'.data.status # NotConnected.status]_vars

\* the half of C7 about sync_canvas_data, and the no-token half of the push
C7_OtherCases ==
    [][/\ (CourseStart /\ ~canvas_token[StartedBy]) =>
             resp' = HTTPException("sync_canvas_data", StartedBy, 400)
       /\ (CourseStart /\ canvas_token[StartedBy]
                       /\ tracked_course_ids[StartedBy] = {}) =>
             /\ resp'.success
             /\ resp'.success #
                   HTTPException("sync_canvas_data", StartedBy, 400).success
       /\ PushNoToken => resp' = APIResponse(NotConnected)]_vars


-----------------------------------------------------------------------------
(* Properties of the pillar list *)

\* the step is the pillars query of the generate_schedule request in flight
PillarStep == gen.pc = "pillars" /\ gen'.pc # "pillars"

\* C11: pillar gathering. The pillar list handed to the proposal generator
\* holds exactly the user's events that start in [start, end] and whose
\* source is not the generator's (whatever their event type), or that are
\* locked whatever their source; no unlocked generated block is a pillar.
C11_PillarGathering ==
    [][PillarStep =>
         gen'.pillars =
             {e \in BagToSet(calendar_events) :
                 /\ e.user_id = gen.user
                 /\ InRange(e.start_time, gen.start, gen.end)
                 /\ (e.source # "CAMPUSMIND_AI" \/ e.is_locked)}]_vars


-----------------------------------------------------------------------------
(* Properties of the push to Google Calendar *)

\* the Google events of assignment a of user u
EventsOf(u, a) ==
    {e \in google_calendar : e.user_id = u /\ e.assignment = a}

\* the google_event_ids stored for assignment a of user u
StoredIn(coll, u, a) == {d.google_event_id : d \in MatchSynced(coll, u, a)}

StoredIds(u, a) == StoredIn(canvas_assignments, u, a)

\* the step is the Google call of the push, or the store that follows it
CallStep == push.pc = "call" /\ push' # push

StoreStep == push.pc = "store" /\ push' # push

C13_OneEventPerAssignment ==
    \A u \in Users, a \in Assignments : Cardinality(EventsOf(u, a)) <= 1

\* the step is the end of a sync_canvas_to_calendar call that was not skipped
PushEnds == push.pc # "idle" /\ push'.pc = "idle"

\* the last_sync_status values an attempt that ends with this step is to
\* leave in the sync_state of its user
LastStatus ==
    IF PushNoToken THEN {"error"}
    ELSE IF PushNothingToDo THEN {"success", "partial", "error"}
    ELSE IF push.failed_count = 0 THEN {"success"}
    ELSE {"partial", "error"}

\* C14: the sync state is always persisted. A calendar sync attempt that is
\* not skipped ends with the sync_state of its user upserted: status success
\* when no item failed, partial or error when items failed, and error when
\* the attempt stops for want of a valid token.
C14_SyncStatePersisted ==
    [][PushEnds =>
         \E d \in MatchUser(sync_state', push.user) :
            /\ d.last_canvas_sync = "recent"
            /\ d.last_sync_status \in LastStatus]_vars


\* the records of the courses, assignments, calendar events and tracked
\* courses, local and at Google
records ==
    <<assignments, canvas_courses, tracked_course_ids, calendar_events,
      canvas_assignments, tracked_courses, sync_state, google_calendar,
      google_tokens>>

\* the step is one of a sync_canvas_to_calendar call up to the answer of
\* get_valid_access_token
TokenPhase == push' # push /\ push.pc \in {"idle", "tokens", "refresh"}

\* C15: configuration errors abort before any write. A course sync of a user
\* without Canvas token answers 400 at once, and a calendar sync of a user
\* without valid Google token returns its error outcome; neither calls
\* create_event or update_event, and every record is left as it was.
C15_AbortBeforeWrite ==
    [][/\ (CourseStart /\ ~canvas_token[StartedBy]) =>
             /\ resp'.code = 400 /\ ~resp'.success
             /\ sync'.pc = "idle"
             /\ UNCHANGED records
       /\ TokenPhase => UNCHANGED records
       /\ PushNoToken =>
             /\ resp'.op = "sync_canvas_to_calendar"
             /\ ~resp'.success
             /\ resp'.data.status = "error"]_vars

\* the calendar sync of a user who tracks a course and has no stored token
\* has returned its error outcome
C15_Witness ==
    /\ PushIdle
    /\ resp.op = "sync_canvas_to_calendar"
    /\ resp.data.status = "error"
    /\ resp.data.message = "Google Calendar not connected"
    /\ google_tokens = EmptyBag
    /\ tracked_courses # EmptyBag


-----------------------------------------------------------------------------
(* Properties of get_valid_access_token *)

\* the stored token documents of user u
StoredTokens(u) == MatchUser(google_tokens, u)

\* the step is the answer of get_user_tokens to the tool call, the answer of
\* the refresh, or the save of the refreshed token
ReadStep == tool.pc = "tokens" /\ tool' # tool

RefreshStep == tool.pc = "refresh" /\ tool' # tool

SaveStep == tool.pc = "save" /\ tool' # tool

\* get_valid_access_token returns None: the tool answers "not connected"
ReturnsNone ==
    /\ tool'.pc = "idle"
    /\ resp' = ToolAnswer(tool.user, FALSE, "Calendar not connected")

\* C16: the refresh rule of get_valid_access_token. Without stored token it
\* returns None; a stored token that expires in less than 5 minutes is
\* refreshed with the stored refresh token before the return, the new access
\* token is saved and returned; a stored token with 5 minutes or more is
\* returned as it is; and when the refresh fails it returns None and the
\* stored document is the one read at the start of the call.
C16_RefreshRule ==
    [][/\ (ReadStep /\ StoredTokens(tool.user) = {}) => ReturnsNone
       /\ ReadStep =>
             /\ UNCHANGED google_tokens
             /\ \A t \in StoredTokens(tool.user) :
                   IF t.ttl < RefreshMargin
                   THEN tool'.pc = "refresh" /\ tool'.tokens = t
                   ELSE tool'.pc = "events"
                        /\ tool'.access_token = t.access_token
       /\ RefreshStep =>
             /\ UNCHANGED google_tokens
             /\ StoredTokens(tool.user) = {tool.tokens}
             /\ \/ ReturnsNone
                \/ /\ tool'.pc = "save"
                   /\ tool'.new_tokens \in Tokens \ {tool.tokens.access_token}
       /\ SaveStep =>
             \/ ReturnsNone /\ UNCHANGED google_tokens
                            /\ StoredTokens(tool.user) = {tool.tokens}
             \/ /\ tool'.pc = "events"
                /\ tool'.access_token = tool.new_tokens
                /\ tool'.access_token # tool.tokens.access_token
                /\ MatchUser(google_tokens', tool.user) =
                      {[tool.tokens EXCEPT !.access_token = tool.new_tokens,
                                           !.ttl = expires_in]}]_vars

\* the stored token was inside the margin and Google has answered the
\* refresh with a new access token, which the call is about to save
C16_Witness ==
    /\ tool.pc = "save"
    /\ tool.tokens.ttl < RefreshMargin
    /\ tool.new_tokens # tool.tokens.access_token
    /\ StoredTokens(tool.user) = {tool.tokens}

\* C17: the refresh of the token of a user is mutually exclusive. Of the
\* callers of get_valid_access_token for the same user, at most one is
\* awaiting google.refresh_access_token or saving its result at any time.
C17_RefreshExclusive ==
    ~ /\ push.pc \in {"refresh", "save"}
      /\ tool.pc \in {"refresh", "save"}
      /\ push.user = tool.user


-----------------------------------------------------------------------------
(* Properties of the pull of the Canvas calendar *)

\* the number of documents of coll for the Canvas event id of user u
PulledCount(coll, u, id) ==
    BagCardinality(Restrict(coll, MatchPulled(coll, u, id)))

\* the step is the update_one of the pull for one fetched event
UpsertStep == pull.pc = "upsert" /\ pull' # pull

\* C18: the pull is a non-duplicating upsert that preserves locks. The
\* update_one of a pull pass for a fetched event leaves exactly one
\* calendar event with that canvas_id for the user: the existing one is
\* updated, or one is inserted when there was none, never a second one; and
\* the is_locked of an existing one is what it was.
C18_PullUpsert ==
    [][UpsertStep =>
         LET u == pull.user
             id == Head(pull.events).canvas_id IN
         /\ PulledCount(calendar_events', u, id) = 1
         /\ \A d \in MatchPulled(calendar_events, u, id) :
               "is_locked" \in DOMAIN d =>
                  \E e \in MatchPulled(calendar_events', u, id) :
                     "is_locked" \in DOMAIN e /\ e.is_locked = d.is_locked]_vars


-----------------------------------------------------------------------------
(* Properties of generate_class_events *)

\* the name of the day of the week of date d, day 0 being a Monday
DayName(d) ==
    <<"monday", "tuesday", "wednesday", "thursday", "friday", "saturday",
      "sunday">>[(d % 7) + 1]

\* the requested days of the week of the call
Requested ==
    {expansion.class_event.days_of_week[i] :
        i \in DOMAIN expansion.class_event.days_of_week}

\* the dates of the term of the call
TermDates ==
    {d \in Dates : /\ date(expansion.class_event.term_start_date) <= d
                   /\ d <= date(expansion.class_event.term_end_date)}

\* the events of the result that fall on date d
On(d) == {i \in DOMAIN expansion.events : expansion.events[i].date = d}

C20_InclusiveBoundaries ==
    expansion.called =>
       /\ \A d \in TermDates :
             DayName(d) \in Requested => Cardinality(On(d)) = 1
       /\ \A i \in DOMAIN expansion.events :
             /\ expansion.events[i].date \in TermDates
             /\ DayName(expansion.events[i].date) \in Requested

\* the same for a request that names no day of the week twice
C20_DistinctDays ==
    (/\ expansion.called
     /\ Len(expansion.class_event.days_of_week) = Cardinality(Requested)) =>
       /\ \A d \in TermDates :
             DayName(d) \in Requested => Cardinality(On(d)) = 1
       /\ \A i \in DOMAIN expansion.events :
             /\ expansion.events[i].date \in TermDates
             /\ DayName(expansion.events[i].date) \in Requested


-----------------------------------------------------------------------------
(* Properties of create_class_events *)

\* a time string that is HH:MM within 00:00..23:59: those of TimeStrs and
\* of the end times that are
ValidTimes ==
    {<<"1", "1", ":", "0", "0">>, <<"9", ":", "3", "0">>,
     <<"1", "3", ":", "0", "0">>}

\* the request is one the claim accepts: the term does not end before the
\* date it starts on, and both times are valid
Acceptable ==
    /\ date(expansion.class_event.term_end_date) >=
          date(expansion.class_event.term_start_date)
    /\ expansion.class_event.start_time \in ValidTimes
    /\ expansion.class_event.end_time \in ValidTimes

\* the step is the validation of the create_class_events request
ValidateStep == expansion.pc = "find" /\ expansion'.pc # "find"

\* C21: the validation of a class request precedes every write. A request
\* whose term ends before it starts, or with a time string that is not
\* HH:MM within 00:00..23:59, is answered 400 and inserts no event; every
\* other request, a one-day term included, is accepted.
C21_ValidationFirst ==
    [][ValidateStep =>
         /\ UNCHANGED calendar_events
         /\ IF Acceptable
            THEN expansion'.pc = "insert" \/ resp'.code = 200
            ELSE expansion'.pc = "done" /\ resp'.code = 400]_vars

\* the same, with the term compared as the code compares it
C21_AsCompared ==
    [][ValidateStep =>
         /\ UNCHANGED calendar_events
         /\ IF /\ expansion.class_event.term_end_date >
                     expansion.class_event.term_start_date
               /\ expansion.class_event.start_time \in ValidTimes
               /\ expansion.class_event.end_time \in ValidTimes
            THEN expansion'.pc = "insert" \/ resp'.code = 200
            ELSE expansion'.pc = "done" /\ resp'.code = 400]_vars


-----------------------------------------------------------------------------
(* Properties of the lock *)

\* event e with is_locked = lock and every other field as it is
Relocked(e, lock) ==
    [user_id |-> e.user_id, event_type |-> e.event_type, source |-> e.source,
     start_time |-> e.start_time, is_locked |-> lock]

\* what a toggle_block_lock(u, block_id, e, lock) step does when block_id
\* is the _id of an event e of user u
LockSets(e, lock) ==
    /\ resp'.code = 200
    /\ calendar_events' = ReplaceOne(calendar_events, e, Relocked(e, lock))
    /\ (e.is_locked = lock => calendar_events' = calendar_events)

\* the step is a request of the owner of e that deletes events or unlocks
OwnersStep ==
    /\ GenIdle /\ gen' = gen
    /\ resp'.op \in {"delete_event", "toggle_block_lock"}
    /\ resp'.code \in {200, 204}

\* the pillars query returns every locked event of the user in the range
LockedArePillars ==
    PillarStep =>
       \A e \in BagToSet(calendar_events) :
          (/\ e.user_id = gen.user /\ e.is_locked
           /\ InRange(e.start_time, gen.start, gen.end)) => e \in gen'.pillars

\* C22: toggle_block_lock(block_id, lock) sets is_locked to lock and changes
\* no other field of the block, so that a second call with the same lock
\* changes nothing; for a block_id that is not the _id of an event of the
\* calling user it answers 404 and changes nothing; and a locked block
\* stays in the calendar until its owner deletes or unlocks it, and is in
\* the pillar list of every generate_schedule whose range contains it.
C22_SetLocked ==
    [][/\ \A u \in Users, block_id \in BlockIds, lock \in BOOLEAN,
            e \in BagToSet(calendar_events) \cup {NoEvent} :
             toggle_block_lock(u, block_id, e, lock) =>
                IF block_id = "stored" /\ e.user_id = u
                THEN LockSets(e, lock)
                ELSE resp'.code = 404 /\ calendar_events' = calendar_events
       /\ LockedArePillars
       /\ \A e \in BagToSet(calendar_events) :
             e.is_locked => Survives(e, calendar_events, calendar_events')
                            \/ OwnersStep]_vars

\* the same for the block_ids that are ObjectIds, and for the locked blocks
\* that are still stored when the pillars are read
C22_WhileStored ==
    [][/\ \A u \in Users, block_id \in BlockIds, lock \in BOOLEAN,
            e \in BagToSet(calendar_events) \cup {NoEvent} :
             toggle_block_lock(u, block_id, e, lock) =>
                IF block_id = "stored" /\ e.user_id = u
                THEN LockSets(e, lock)
                ELSE /\ resp'.code = IF InvalidId(block_id) THEN 500 ELSE 404
                     /\ calendar_events' = calendar_events
       /\ LockedArePillars]_vars


-----------------------------------------------------------------------------
(* Properties of the tracked courses *)

\* the step is an untrack_course or a track_courses of SyncService, or a
\* PUT /canvas/courses/track
TrackingStep ==
    tracked_courses' # tracked_courses \/ tracked_course_ids' # tracked_course_ids

\* document d but for its is_tracked
Untracked(d) ==
    [user_id |-> d.user_id, course_id |-> d.course_id,
     meeting_times |-> d.meeting_times, last_synced |-> d.last_synced]

\* the documents of db.tracked_courses with is_tracked left out
Records(coll) == {Untracked(d) : d \in BagToSet(coll)}

\* the step adds a meeting time
MeetingStep ==
    \E d \in BagToSet(tracked_courses), e \in BagToSet(tracked_courses') :
       Len(e.meeting_times) > Len(d.meeting_times)

\* C23: untracking is a soft flag. No step that untracks or tracks a course
\* deletes a record of db.tracked_courses, db.courses, db.assignments or
\* db.calendar_events; on a (user, course) that has a record it changes the
\* record's is_tracked only, meeting_times included, and adds no second
\* record; tracking a course for the first time adds the one record.
C23_SoftUntrack ==
    [][(TrackingStep /\ ~MeetingStep) =>
         /\ UNCHANGED <<canvas_courses, assignments, calendar_events>>
         /\ BagCardinality(tracked_courses') >= BagCardinality(tracked_courses)
         /\ Records(tracked_courses) \subseteq Records(tracked_courses')
         /\ \A u \in Users, c \in PushCourses :
               /\ MatchTracked(tracked_courses, u, c) # {} =>
                     /\ Records(tracked_courses') = Records(tracked_courses)
                     /\ BagCardinality(tracked_courses') =
                           BagCardinality(tracked_courses)
               /\ untrack_course(u, c) =>
                     \A d \in MatchTracked(tracked_courses', u, c) : ~d.is_tracked
               /\ SyncService_track_courses(u, c, "ok") =>
                     /\ \A d \in MatchTracked(tracked_courses', u, c) : d.is_tracked
                     /\ Cardinality(MatchTracked(tracked_courses', u, c)) = 1
                     /\ BagCardinality(tracked_courses') <=
                           BagCardinality(tracked_courses) + 1]_vars

\* a course with its meeting times is untracked, beside a course, an
\* assignment and a calendar event
C23_Witness ==
    /\ \E d \in BagToSet(tracked_courses) :
          ~d.is_tracked /\ Len(d.meeting_times) = MaxMeetingTimes
    /\ BagCardinality(tracked_courses) = 1
    /\ canvas_courses # EmptyBag /\ assignments # EmptyBag
    /\ calendar_events # EmptyBag


-----------------------------------------------------------------------------
(* Properties of the isolation of the users *)

\* the records of user v
OwnedBy(v) ==
    <<Restrict(calendar_events, {e \in BagToSet(calendar_events) : e.user_id = v}),
      Restrict(assignments, {d \in BagToSet(assignments) : d.user_id = v}),
      Restrict(canvas_courses, {d \in BagToSet(canvas_courses) : d.user_id = v}),
      canvas_token[v], tracked_course_ids[v]>>

\* the step is a step of a request of user u
Caller(u) ==
    \/ \E e \in BagToSet(calendar_events) \cup {NoEvent}, block_id \in BlockIds,
          lock \in BOOLEAN : toggle_block_lock(u, block_id, e, lock)
    \/ \E e \in BagToSet(calendar_events) :
          \/ delete_event(u, e)
          \/ \E update_data \in EventUpdates, times_valid \in BOOLEAN :
                update_event(u, e, update_data, times_valid)
    \/ \E r \in Ranges : clear_ai_blocks(u, r[1], r[2])
    \/ \E type \in EventTypes, t \in Times : create_event(u, type, t)
    \/ \E a \in Assignments, st \in Statuses : update_assignment_status(u, a, st)
    \/ save_canvas_token(u)
    \/ \E ids \in TrackRequests : track_courses(u, ids)
    \/ GenStep /\ GenRequest.user = u
    \/ sync' # sync /\ (IF Idle THEN sync' ELSE sync).user = u

\* C24: user isolation. No step of a request of a user (toggle_block_lock,
\* update_event, delete_event, clear_ai_blocks, create_event, the status
\* update of an assignment, the Canvas settings, generate_schedule with its
\* wipe, sync_canvas_data), whatever record its id names, changes or
\* deletes a calendar event, an assignment, a course or a setting of another
\* user.
C24_UserIsolation ==
    [][\A u \in Users :
         (\A v \in Users \ {u} : OwnedBy(v)' = OwnedBy(v)) \/ ~Caller(u)]_vars

\* u1 asked to lock an event of u2, which has a manual event and a generated
\* block, and was answered 404; both users have a synced assignment
C24_Witness ==
    /\ resp.op = "toggle_block_lock" /\ resp.code = 404
    /\ \A e \in BagToSet(calendar_events) : e.user_id = "u2" /\ ~e.is_locked
    /\ \E e \in BagToSet(calendar_events) : e.source = "CAMPUSMIND_AI"
    /\ \E e \in BagToSet(calendar_events) : e.source # "CAMPUSMIND_AI"
    /\ \A u \in Users : \E d \in BagToSet(assignments) : d.user_id = u


-----------------------------------------------------------------------------
(* Properties of the blocks generate_schedule inserts *)

\* the step is an insert_one of the generate_schedule request in flight
InsertStep == gen.pc = "insert" /\ calendar_events' # calendar_events

\* the generated blocks of coll that are locked
LockedBlocks(coll) ==
    Restrict(coll, {e \in BagToSet(coll) :
                      e.source = "CAMPUSMIND_AI" /\ e.is_locked})

\* the step is a toggle_block_lock that locks an event
LockStep ==
    \E u \in Users, e \in BagToSet(calendar_events) :
       toggle_block_lock(u, "stored", e, TRUE)

\* C25: commit tagging. The one document an insert of generate_schedule
\* adds has source CAMPUSMIND_AI and is_locked false, whatever type and
\* is_locked the proposed block carries; and the number of locked generated
\* blocks grows in a toggle_block_lock(lock = true) step only.
C25_CommitTagging ==
    [][/\ InsertStep =>
            \E e \in BagToSet(calendar_events') :
               /\ calendar_events' = calendar_events (+) SetToBag({e})
               /\ e.source = "CAMPUSMIND_AI" /\ e.is_locked = FALSE
               /\ e.user_id = gen.user
       /\ BagCardinality(LockedBlocks(calendar_events')) >
             BagCardinality(LockedBlocks(calendar_events)) => LockStep]_vars

\* the request in flight has inserted a block that the proposal wanted
\* locked and of an unknown type: it is stored unlocked
C25_Witness ==
    /\ gen.inserted = 1
    /\ gen.schedule[1].is_locked /\ gen.schedule[1].type = "NAP"
    /\ LockedBlocks(calendar_events) = EmptyBag
    /\ \E e \in BagToSet(calendar_events) :
          e.source = "CAMPUSMIND_AI" /\ ~e.is_locked


-----------------------------------------------------------------------------
(* Properties of the counts of the push *)

\* the step is the end of a pass: the upsert of the sync state and the return
PassEnd == push.pc = "state" /\ push'.pc = "idle"

\* how many of the captured errors are of kind e
Count(errors, e) == Cardinality({i \in DOMAIN errors : errors[i] = e})

\* the create_event calls of the pass that returned an event: one for each
\* stored mapping and one for each store that failed
CreatesReturned(p) == p.created_events + Count(p.errors, "store")

\* the update_event calls of the pass that returned
UpdatesReturned(p) == p.synced_count - p.created_events

\* the assignments of the tracked courses that are due in the future
Eligible ==
    {a \in Assignments :
       /\ canvas.due[a] = "future"
       /\ \E c \in PushCourses :
             \E i \in DOMAIN canvas.assignments[c] : canvas.assignments[c][i] = a}

\* the pass went through every eligible assignment, and the sync state it
\* leaves has partial exactly when an item failed, with the first error
CapturedAndPersisted ==
    /\ push.failed_count = Len(push.errors)
    /\ Count(push.errors, "fetch") = 0 =>
          push.synced_count + Count(push.errors, "google")
             + Count(push.errors, "store") = Cardinality(Eligible)
    /\ resp'.data.synced_count = push.synced_count
    /\ resp'.data.failed_count = push.failed_count
    /\ \A d \in MatchUser(sync_state', push.user) :
          /\ d.last_sync_status =
                IF push.failed_count > 0 THEN "partial" ELSE "success"
          /\ d.last_sync_error =
                IF push.errors = <<>> THEN "none" ELSE push.errors[1]
    /\ MatchUser(sync_state', push.user) # {}

\* C26: per-item failure capture. A failed create_event or update_event does
\* not stop the pass: at its end every eligible assignment was gone
\* through, failed_count is the number of failed items, synced_count the
\* number of create_event and update_event calls that succeeded, and the
\* sync state holds partial exactly when failed_count > 0, with the first
\* error.
C26_FailureCapture ==
    [][PassEnd =>
         /\ CapturedAndPersisted
         /\ push.synced_count = CreatesReturned(push) + UpdatesReturned(push)]_vars

\* the same, where synced_count counts the assignments whose call and whose
\* stored mapping both succeeded
C26_AsCounted == [][PassEnd => CapturedAndPersisted]_vars


-----------------------------------------------------------------------------
(* Properties of the eligibility of an assignment *)

\* the step is the look at the due date of the assignment at hand
FindStep == push.pc = "find" /\ push' # push

\* the step is a create_event or update_event call
ProviderCall == push.pc = "call" /\ push' # push

DueAt == Head(push.assignments).due_at

\* C27: push eligibility. create_event or update_event is called only for
\* an assignment whose due date is after now; the look at an assignment
\* that is due before now makes no call and counts it neither as synced
\* nor as failed, and no step of the pass changes the stored mapping of an
\* assignment other than the one it called the provider for.
C27_PushEligibility ==
    [][/\ ProviderCall => DueAt \in {"future", "future+00:00"}
       /\ (FindStep /\ DueAt \in {"past", "past+00:00"}) =>
             /\ push'.pc # "call"
             /\ push'.synced_count = push.synced_count
             /\ push'.failed_count = push.failed_count
       /\ canvas_assignments' # canvas_assignments =>
             /\ push.pc = "store"
             /\ DueAt \in {"future", "future+00:00"}]_vars

\* the same for due dates without UTC offset, with a due date that is the
\* instant of the comparison taken as one after it
C27_WithoutOffset ==
    [][/\ ProviderCall => DueAt \in {"future", "now"}
       /\ (FindStep /\ DueAt = "past") =>
             /\ push'.pc # "call"
             /\ push'.synced_count = push.synced_count
             /\ push'.failed_count = push.failed_count
       /\ (FindStep /\ offset_aware(DueAt)) =>
             /\ push'.pc # "call"
             /\ push'.failed_count = push.failed_count + 1
       /\ canvas_assignments' # canvas_assignments =>
             /\ push.pc = "store"
             /\ DueAt \in {"future", "now"}]_vars


-----------------------------------------------------------------------------
(* Properties of the skip rule *)

\* the sync state of u says that its last pass ended less than the interval
\* ago
RecentlySynced(u) ==
    \E d \in MatchUser(sync_state, u) : d.last_canvas_sync = "recent"

\* C28: the skip rule. A sync_canvas_to_calendar call without force of a
\* user whose last_canvas_sync is less than the interval ago returns
\* 'skipped' at once, whatever the last_sync_status: it reads no token, calls
\* no provider and writes no record. A call with force, or of a user
\* without sync state, without last_canvas_sync or with an older one, goes
\* on to the token.
C28_SkipRule ==
    [][\A u \in Users, force \in BOOLEAN :
         push_start(u, force) =>
            IF ~force /\ RecentlySynced(u)
            THEN /\ resp'.data.status = "skipped" /\ resp'.success
                 /\ push'.pc = "idle"
                 /\ UNCHANGED records
            ELSE /\ push'.pc = "tokens" /\ push'.user = u
                 /\ UNCHANGED records]_vars

\* a call was skipped after a pass that ended partial
C28_Witness ==
    /\ resp.op = "sync_canvas_to_calendar" /\ resp.data.status = "skipped"
    /\ PushIdle
    /\ \E d \in MatchUser(sync_state, "u1") :
          d.last_canvas_sync = "recent" /\ d.last_sync_status = "partial"


-----------------------------------------------------------------------------
(* Properties of generate_schedule without regenerate *)

\* the document the next insert is to add for the block at hand
NextGenerated ==
    [user_id |-> gen.user, event_type |-> "other", source |-> "CAMPUSMIND_AI",
     is_locked |-> FALSE, start_time |-> gen.schedule[gen.inserted + 1].start_time]

\* the step returns the ScheduleGenerationResponse of a successful call
GenSucceeds ==
    /\ GenStep /\ gen'.pc = "idle"
    /\ resp'.op = "generate_schedule" /\ resp'.code = 200

\* the blocks the request in flight has inserted once the step is taken
InsertedAfter == gen.inserted + (IF InsertStep THEN 1 ELSE 0)

\* C29: generate_schedule with regenerate = false only adds. No step of
\* such a request deletes or changes an event; each insert adds the one
\* document of the next proposed block, a copy more when that document is
\* stored already; and a call that succeeds has inserted every block of
\* its proposal, so that k calls of m blocks add k*m documents.
C29_OnlyAdds ==
    [][(GenStep /\ ~GenRequest.regenerate) =>
         /\ \A e \in BagToSet(calendar_events) :
               Survives(e, calendar_events, calendar_events')
         /\ IF InsertStep
            THEN calendar_events' = calendar_events (+) SetToBag({NextGenerated})
            ELSE calendar_events' = calendar_events
         /\ GenSucceeds => InsertedAfter = Len(gen.schedule)]_vars

\* the second call without regenerate has succeeded with its one block, and
\* the calendar holds that block twice
C29_Witness ==
    /\ resp.op = "generate_schedule" /\ resp.code = 200
    /\ resp.study_blocks_created = 1
    /\ GenIdle
    /\ \E e \in BagToSet(calendar_events) :
          /\ e.source = "CAMPUSMIND_AI" /\ ~e.is_locked
          /\ CopiesIn(e, calendar_events) = 2

\* the step ends a generate_schedule request with the answer 500
GenFails ==
    /\ GenStep /\ gen'.pc = "idle"
    /\ resp'.op = "generate_schedule" /\ resp'.code = 500

\* C30: commit of a proposal is all-or-nothing. When generate_schedule ends
\* with an error, because a proposed block cannot be committed or for
\* another reason, no block of its proposal has been inserted.
C30_AllOrNothing ==
    [][GenFails => InsertedAfter = 0]_vars

====
